---- MODULE Spec2Model ----
(***************************************************************************)
(* Telemetry normalization and resilience layer of the predictive          *)
(* maintenance dashboard:                                                  *)
(*   - safeApi (frontend/src/api/safeApi.ts): the resilient fetcher and    *)
(*     its fallback provider generateMockData;                             *)
(*   - SensorMonitors (README.md, lines 601-887): the channel aggregator   *)
(*     with its alias resolution and threshold classification.             *)
(* Strings that the code inspects character by character (includes,        *)
(* toLowerCase, replace, trim) are sequences of one-character strings;     *)
(* Chars gives the characters of every string literal the model uses.      *)
(***************************************************************************)
EXTENDS Bags, Integers, Sequences, FiniteSets, TLC

VARIABLES
    status,      \* useBackendStore.getState().status
    calls,       \* the safeApi calls that await their HTTP request (a bag)
    lastResult,  \* the call that returned last, with its result
    failRun,     \* observer: consecutive failed live requests since the last success
    monitors,    \* SensorMonitors: the `monitors` state (the snapshot)
    isLoading,   \* SensorMonitors: the `isLoading` state
    isFallback,  \* SensorMonitors: the `isFallback` state
    lastPoll,    \* observer: what the poll handled last was given
    maxSeen,     \* observer: per channel, the newest timestamp any poll delivered
    aggRows,     \* the aggregation on its own: the batch it was given
    aggSnap,     \* the aggregation on its own: the snapshot it produced last
    aggPasses,   \* the aggregation on its own: passes made over aggRows
    tblData,     \* LiveDataTable: the `data` state (the table rows)
    tblLoading,  \* LiveDataTable: the `isLoading` state
    tblFallback, \* LiveDataTable: the `isFallback` state
    lastTable,   \* observer: what the round fetchLiveData handled last was given
    tblRounds,   \* LiveDataTable: the rounds awaiting their Promise.all, oldest first
    indicators,  \* OfflineIndicator: per mounted instance, its state
    checker,     \* ServiceHealthChecker: the probe in flight and the last health
    now,         \* the clock
    dash,        \* Dashboard: its state, refs and the values its effect closed over
    rounds,      \* Dashboard: the fetch rounds awaiting their Promise.all
    clock,       \* Dashboard: Date.now(), in seconds
    riskCard     \* Dashboard: the Extruder Risk card as rendered last

vars == <<status, calls, lastResult, failRun, monitors, isLoading, isFallback, lastPoll,
          maxSeen, aggRows, aggSnap, aggPasses, tblData, tblLoading, tblFallback,
          lastTable, tblRounds, indicators, checker, now, dash, rounds, clock, riskCard>>
apiVars == <<status, calls, lastResult, failRun>>
monVars == <<monitors, isLoading, isFallback, lastPoll, maxSeen>>
aggVars == <<aggRows, aggSnap, aggPasses>>
tableVars == <<tblData, tblLoading, tblFallback, lastTable, tblRounds>>
indVars == <<indicators, checker, now>>
dashVars == <<dash, rounds, clock>>
nonApiVars == <<monVars, aggVars, tableVars, indVars, dashVars, riskCard>>

(***************************************************************************)
(* Strings                                                                 *)
(***************************************************************************)
Chars(s) ==
    CASE s = "/dashboard/overview" -> <<"/", "d", "a", "s", "h", "b", "o", "a", "r", "d", "/", "o", "v", "e", "r", "v", "i", "e", "w">>
      [] s = "/predictions?limit=30&sort=desc" -> <<"/", "p", "r", "e", "d", "i", "c", "t", "i", "o", "n", "s", "?", "l", "i", "m", "i", "t", "=", "3", "0", "&", "s", "o", "r", "t", "=", "d", "e", "s", "c">>
      [] s = "/ai/status" -> <<"/", "a", "i", "/", "s", "t", "a", "t", "u", "s">>
      [] s = "/mqtt/status" -> <<"/", "m", "q", "t", "t", "/", "s", "t", "a", "t", "u", "s">>
      [] s = "/dashboard/machines/stats" -> <<"/", "d", "a", "s", "h", "b", "o", "a", "r", "d", "/", "m", "a", "c", "h", "i", "n", "e", "s", "/", "s", "t", "a", "t", "s">>
      [] s = "/dashboard/sensors/stats" -> <<"/", "d", "a", "s", "h", "b", "o", "a", "r", "d", "/", "s", "e", "n", "s", "o", "r", "s", "/", "s", "t", "a", "t", "s">>
      [] s = "/dashboard/predictions/stats" -> <<"/", "d", "a", "s", "h", "b", "o", "a", "r", "d", "/", "p", "r", "e", "d", "i", "c", "t", "i", "o", "n", "s", "/", "s", "t", "a", "t", "s">>
      [] s = "/dashboard/extruder/status" -> <<"/", "d", "a", "s", "h", "b", "o", "a", "r", "d", "/", "e", "x", "t", "r", "u", "d", "e", "r", "/", "s", "t", "a", "t", "u", "s">>
      [] s = "/dashboard/extruder/latest?limit=50" -> <<"/", "d", "a", "s", "h", "b", "o", "a", "r", "d", "/", "e", "x", "t", "r", "u", "d", "e", "r", "/", "l", "a", "t", "e", "s", "t", "?", "l", "i", "m", "i", "t", "=", "5", "0">>
      [] s = "/dashboard/extruder/derived?window_minutes=30" -> <<"/", "d", "a", "s", "h", "b", "o", "a", "r", "d", "/", "e", "x", "t", "r", "u", "d", "e", "r", "/", "d", "e", "r", "i", "v", "e", "d", "?", "w", "i", "n", "d", "o", "w", "_", "m", "i", "n", "u", "t", "e", "s", "=", "3", "0">>
      [] s = "/sensor-data/logs?limit=20&sort=desc" -> <<"/", "s", "e", "n", "s", "o", "r", "-", "d", "a", "t", "a", "/", "l", "o", "g", "s", "?", "l", "i", "m", "i", "t", "=", "2", "0", "&", "s", "o", "r", "t", "=", "d", "e", "s", "c">>
      [] s = "/predictions?limit=20&sort=desc" -> <<"/", "p", "r", "e", "d", "i", "c", "t", "i", "o", "n", "s", "?", "l", "i", "m", "i", "t", "=", "2", "0", "&", "s", "o", "r", "t", "=", "d", "e", "s", "c">>
      [] s = "/system/reset" -> <<"/", "s", "y", "s", "t", "e", "m", "/", "r", "e", "s", "e", "t">>
      [] s = "/predictions" -> <<"/", "p", "r", "e", "d", "i", "c", "t", "i", "o", "n", "s">>
      [] s = "/machines" -> <<"/", "m", "a", "c", "h", "i", "n", "e", "s">>
      [] s = "temperature" -> <<"t", "e", "m", "p", "e", "r", "a", "t", "u", "r", "e">>
      [] s = "opcua_temperature" -> <<"o", "p", "c", "u", "a", "_", "t", "e", "m", "p", "e", "r", "a", "t", "u", "r", "e">>
      [] s = "temp" -> <<"t", "e", "m", "p">>
      [] s = "vibration" -> <<"v", "i", "b", "r", "a", "t", "i", "o", "n">>
      [] s = "opcua_vibration" -> <<"o", "p", "c", "u", "a", "_", "v", "i", "b", "r", "a", "t", "i", "o", "n">>
      [] s = "vib" -> <<"v", "i", "b">>
      [] s = "pressure" -> <<"p", "r", "e", "s", "s", "u", "r", "e">>
      [] s = "opcua_pressure" -> <<"o", "p", "c", "u", "a", "_", "p", "r", "e", "s", "s", "u", "r", "e">>
      [] s = "press" -> <<"p", "r", "e", "s", "s">>
      [] s = "motor_current" -> <<"m", "o", "t", "o", "r", "_", "c", "u", "r", "r", "e", "n", "t">>
      [] s = "opcua_motor_current" -> <<"o", "p", "c", "u", "a", "_", "m", "o", "t", "o", "r", "_", "c", "u", "r", "r", "e", "n", "t">>
      [] s = "motorcurrent" -> <<"m", "o", "t", "o", "r", "c", "u", "r", "r", "e", "n", "t">>
      [] s = "current" -> <<"c", "u", "r", "r", "e", "n", "t">>
      [] s = "wear_index" -> <<"w", "e", "a", "r", "_", "i", "n", "d", "e", "x">>
      [] s = "opcua_wear_index" -> <<"o", "p", "c", "u", "a", "_", "w", "e", "a", "r", "_", "i", "n", "d", "e", "x">>
      [] s = "wear" -> <<"w", "e", "a", "r">>
      [] s = "wearindex" -> <<"w", "e", "a", "r", "i", "n", "d", "e", "x">>
      [] s = "" -> <<>>
      [] s = "humidity" -> <<"h", "u", "m", "i", "d", "i", "t", "y">>
      [] s = "OPCUA_Temperature" -> <<"O", "P", "C", "U", "A", "_", "T", "e", "m", "p", "e", "r", "a", "t", "u", "r", "e">>
      [] s = "Motor Current" -> <<"M", "o", "t", "o", "r", " ", "C", "u", "r", "r", "e", "n", "t">>
      [] s = "flow" -> <<"f", "l", "o", "w">>
      [] s = "mm/s" -> <<"m", "m", "/", "s">>
      [] s = "mm/s RMS" -> <<"m", "m", "/", "s", " ", "R", "M", "S">>
      [] s = "bar" -> <<"b", "a", "r">>
      [] s = "A" -> <<"A">>
      [] s = "degC" -> <<"d", "e", "g", "C">>
      [] s = "psi" -> <<"p", "s", "i">>
      [] s = "Temperature" -> <<"T", "e", "m", "p", "e", "r", "a", "t", "u", "r", "e">>
      [] s = "Wear Index" -> <<"W", "e", "a", "r", " ", "I", "n", "d", "e", "x">>
      [] s = "s1" -> <<"s", "1">>
      [] s = "s2" -> <<"s", "2">>
      [] s = "s3" -> <<"s", "3">>
      [] s = "Unknown" -> <<"U", "n", "k", "n", "o", "w", "n">>
      [] s = "red" -> <<"r", "e", "d">>
      [] s = "yellow" -> <<"y", "e", "l", "l", "o", "w">>
      [] s = "green" -> <<"g", "r", "e", "e", "n">>
      [] s = "unknown" -> <<"u", "n", "k", "n", "o", "w", "n">>

\* String.prototype.includes: sub occurs in s as a contiguous run of characters
\* (the empty string occurs in every string).
Includes(s, sub) ==
    \E i \in 0..(Len(s) - Len(sub)) :
        \A j \in 1..Len(sub) : s[i + j] = sub[j]

(***************************************************************************)
(* safeApi.ts: the fallback provider                                       *)
(***************************************************************************)

\* `return null`
NullData == [kind |-> "null", type |-> "none"]

\* The ten mock predictions; timestamp, score and confidence (clock and
\* Math.random) are left out, every other field is as the code writes it.
MockPredictions ==
    [kind |-> "list", type |-> "prediction",
     items |-> [i \in 1..10 |->
        [id |-> i - 1, machine_id |-> "mock-machine", sensor_id |-> "mock-sensor",
         status |-> IF (i - 1) % 3 = 0 THEN "critical"
                    ELSE IF (i - 1) % 3 = 1 THEN "warning" ELSE "normal",
         prediction |-> IF (i - 1) % 3 = 0 THEN "anomaly" ELSE "normal"]]]

MockOverview ==
    [kind |-> "object", type |-> "overview",
     value |-> [machines |-> [total |-> 5, online |-> 4],
                alarms |-> [active |-> 2],
                sensors |-> [total |-> 20],
                predictions |-> [last_24h |-> 150]]]

MockMachines ==
    [kind |-> "list", type |-> "machine",
     items |-> [i \in 1..5 |->
        [id |-> i - 1, name |-> i, location |-> i,
         status |-> IF (i - 1) % 2 = 0 THEN "active" ELSE "inactive",
         machine_type |-> "Motor"]]]

MockAiStatus ==
    [kind |-> "object", type |-> "ai_status",
     value |-> [status |-> "unavailable", model_loaded |-> FALSE,
                message |-> "Backend offline - using fallback data"]]

MockMqttStatus ==
    [kind |-> "object", type |-> "mqtt_status",
     value |-> [connected |-> FALSE,
                broker |-> [host |-> "unknown", port |-> 1883],
                consumer |-> [connected |-> FALSE]]]

\* generateMockData(endpoint): the first matching `includes` branch decides.
generateMockData(endpoint) ==
    IF Includes(Chars(endpoint), Chars("/predictions")) THEN MockPredictions
    ELSE IF Includes(Chars(endpoint), Chars("/dashboard/overview")) THEN MockOverview
    ELSE IF Includes(Chars(endpoint), Chars("/machines")) THEN MockMachines
    ELSE IF Includes(Chars(endpoint), Chars("/ai/status")) THEN MockAiStatus
    ELSE IF Includes(Chars(endpoint), Chars("/mqtt/status")) THEN MockMqttStatus
    ELSE NullData

(***************************************************************************)
(* The callers' endpoints and what each one's live response is used as     *)
(***************************************************************************)

\* Dashboard.fetchDashboardData: the ten safeApi.get calls of one round.
DashboardEndpoints ==
    {"/dashboard/overview", "/predictions?limit=30&sort=desc", "/ai/status",
     "/mqtt/status", "/dashboard/machines/stats", "/dashboard/sensors/stats",
     "/dashboard/predictions/stats", "/dashboard/extruder/status",
     "/dashboard/extruder/latest?limit=50",
     "/dashboard/extruder/derived?window_minutes=30"}

\* LiveDataTable.fetchLiveData: the two safeApi.get calls of one round.
LiveTableEndpoints ==
    {"/sensor-data/logs?limit=20&sort=desc", "/predictions?limit=20&sort=desc"}

GetEndpoints == DashboardEndpoints \cup LiveTableEndpoints

\* Dashboard.handleSystemReset: safeApi.post('/system/reset'); the model issues
\* put and delete against the same endpoint.
MutatingEndpoints == {"/system/reset"}

\* generateMockData on the callers' endpoints, evaluated once.
MockDataOf == [url \in GetEndpoints \cup MutatingEndpoints |-> generateMockData(url)]

\* The shape in which the consumers read each endpoint's live response:
\* predictions and sensor logs are iterated as lists, every other endpoint is
\* read as an object of its own kind (overview.machines.total, aiStatus.status,
\* mqttStatus.connected, predictionsStats.total, mssqlStatus.configured,
\* mssqlLatest.rows, mssqlDerived.risk, ...).
LiveShape(url) ==
    CASE url = "/dashboard/overview" -> [kind |-> "object", type |-> "overview"]
      [] url = "/predictions?limit=30&sort=desc" -> [kind |-> "list", type |-> "prediction"]
      [] url = "/predictions?limit=20&sort=desc" -> [kind |-> "list", type |-> "prediction"]
      [] url = "/ai/status" -> [kind |-> "object", type |-> "ai_status"]
      [] url = "/mqtt/status" -> [kind |-> "object", type |-> "mqtt_status"]
      [] url = "/dashboard/machines/stats" -> [kind |-> "object", type |-> "machines_stats"]
      [] url = "/dashboard/sensors/stats" -> [kind |-> "object", type |-> "sensors_stats"]
      [] url = "/dashboard/predictions/stats" -> [kind |-> "object", type |-> "predictions_stats"]
      [] url = "/dashboard/extruder/status" -> [kind |-> "object", type |-> "extruder_status"]
      [] url = "/dashboard/extruder/latest?limit=50" -> [kind |-> "object", type |-> "extruder_latest"]
      [] url = "/dashboard/extruder/derived?window_minutes=30" -> [kind |-> "object", type |-> "extruder_derived"]
      [] url = "/sensor-data/logs?limit=20&sort=desc" -> [kind |-> "list", type |-> "sensor_log"]
      [] url = "/system/reset" -> [kind |-> "object", type |-> "reset_result"]

(***************************************************************************)
(* safeApi.ts: the axios instance                                          *)
(***************************************************************************)

\* axios.create({ timeout: 5000 })
InstanceTimeout == 5000

\* `config?.timeout || 5000` in get and post
DefaultTimeout == 5000

\* A caller that passes no config, or a config without timeout.
TimeoutUndefined == -1

\* The timeouts a caller's config may carry: none, 0 and a value of its own.
ConfigTimeouts == {TimeoutUndefined, 0, 3000}

\* axios mergeConfig for `timeout`: the request's value when it is defined
\* (0 included), else the instance's.
AxiosMergeTimeout(requestTimeout) ==
    IF requestTimeout # TimeoutUndefined THEN requestTimeout ELSE InstanceTimeout

\* `config?.timeout || 5000`: undefined and 0 are falsy.
TimeoutOrDefault(cfg) ==
    IF cfg # TimeoutUndefined /\ cfg # 0 THEN cfg ELSE DefaultTimeout

\* axios arms its timer only for a timeout above 0 (0 is "no timeout").
TimerArmed(timeout) == timeout > 0

\* The live response body of the endpoint, as the backend sends it.
LiveBody(url) == [kind |-> LiveShape(url).kind, type |-> LiveShape(url).type, live |-> TRUE]

\* How the HTTP request may end, with axios' error.message: a 2xx response, no
\* response at all, a response with a non-2xx status.
Outcomes(url) ==
    {[ok |-> TRUE, net |-> "ok", body |-> LiveBody(url), message |-> ""],
     [ok |-> FALSE, net |-> "transport", body |-> NullData, message |-> "Network Error"],
     [ok |-> FALSE, net |-> "http", body |-> NullData,
      message |-> "Request failed with status code 500"]}

\* axios' timer fired before the response.
TimeoutError ==
    [ok |-> FALSE, net |-> "timeout", body |-> NullData, message |-> "timeout exceeded"]

\* `error` left out of the result object
NoError == "undefined"

(***************************************************************************)
(* safeApi.ts: get, post, put, delete                                      *)
(* A call is a record: the arguments, whether the status read at call time *)
(* was 'offline' (offlineSeen), whether a request went to the network      *)
(* (sent), whether axios armed a timer for it (timerArmed), the promise    *)
(* state and, once settled, the result {fallback, data, error} together    *)
(* with what the network did (net, body).                                  *)
(***************************************************************************)

Methods == {"get", "post", "put", "delete"}

\* The synchronous return before any request (`if (backendStatus === 'offline')`).
ShortCircuit(method, url, seen, data, error) ==
    [method |-> method, url |-> url, offlineSeen |-> (seen = "offline"),
     sent |-> FALSE, timerArmed |-> FALSE,
     state |-> "resolved", net |-> "none", body |-> NullData,
     fallback |-> TRUE, data |-> data, error |-> error]

\* `await axiosInstance.<method>(...)`: the request is out, the promise pending.
Awaiting(method, url, seen, timeout) ==
    [method |-> method, url |-> url, offlineSeen |-> (seen = "offline"),
     sent |-> TRUE, timerArmed |-> TimerArmed(timeout),
     state |-> "pending", net |-> "none", body |-> NullData,
     fallback |-> FALSE, data |-> NullData, error |-> NoError]

\* `return { fallback: false, data: response.data }`
LiveResult(c, outcome) ==
    [c EXCEPT !.state = "resolved", !.net = outcome.net, !.body = outcome.body,
              !.fallback = FALSE, !.data = outcome.body]

\* Variant: no catch around the await, the rejection reaches the caller.
FallbackResult_Rethrow(c, outcome, data) ==
    [c EXCEPT !.state = "rejected", !.net = outcome.net, !.error = outcome.message]

\* `catch (error) { return { fallback: true, data, error: error.message } }`
FallbackResult(c, outcome, data) ==
    [c EXCEPT !.state = "resolved", !.net = outcome.net,
              !.fallback = TRUE, !.data = data, !.error = outcome.message]

\* Variant: the status is not consulted before the request.
GetStart_IgnoreOffline(url, cfg, seen) ==
    Awaiting("get", url, seen, AxiosMergeTimeout(TimeoutOrDefault(cfg)))

\* safeApi.get up to its await
GetStart(url, cfg, seen) ==
    IF seen = "offline"
    THEN ShortCircuit("get", url, seen, MockDataOf[url], NoError)
    ELSE Awaiting("get", url, seen, AxiosMergeTimeout(TimeoutOrDefault(cfg)))

\* Variant: the substitute data of a failed request is returned untagged.
GetSettle_TagLive(c, outcome) ==
    IF outcome.ok THEN LiveResult(c, outcome)
    ELSE [FallbackResult(c, outcome, MockDataOf[c.url]) EXCEPT !.fallback = FALSE]

\* safeApi.get from its await on
GetSettle(c, outcome) ==
    IF outcome.ok THEN LiveResult(c, outcome)
    ELSE FallbackResult(c, outcome, MockDataOf[c.url])

\* safeApi.post up to its await
PostStart(url, cfg, seen) ==
    IF seen = "offline"
    THEN ShortCircuit("post", url, seen, NullData, "Backend offline")
    ELSE Awaiting("post", url, seen, AxiosMergeTimeout(TimeoutOrDefault(cfg)))

\* safeApi.put up to its await: the caller's config goes to axios as it is
PutStart(url, cfg, seen) ==
    IF seen = "offline"
    THEN ShortCircuit("put", url, seen, NullData, "Backend offline")
    ELSE Awaiting("put", url, seen, AxiosMergeTimeout(cfg))

\* safeApi.delete up to its await: the caller's config goes to axios as it is
DeleteStart(url, cfg, seen) ==
    IF seen = "offline"
    THEN ShortCircuit("delete", url, seen, NullData, "Backend offline")
    ELSE Awaiting("delete", url, seen, AxiosMergeTimeout(cfg))

\* Variant: a failed mutating call answers with made-up data, as get does.
MutatingSettle_MockData(c, outcome) ==
    IF outcome.ok THEN LiveResult(c, outcome)
    ELSE FallbackResult(c, outcome, MockPredictions)

\* safeApi.post, put, delete from their await on
MutatingSettle(c, outcome) ==
    IF outcome.ok THEN LiveResult(c, outcome)
    ELSE FallbackResult(c, outcome, NullData)

Start(method, url, cfg, seen) ==
    CASE method = "get" -> GetStart(url, cfg, seen)
      [] method = "post" -> PostStart(url, cfg, seen)
      [] method = "put" -> PutStart(url, cfg, seen)
      [] method = "delete" -> DeleteStart(url, cfg, seen)

Settle(c, outcome) ==
    IF c.method = "get" THEN GetSettle(c, outcome) ELSE MutatingSettle(c, outcome)

EndpointsOf(method) == IF method = "get" THEN GetEndpoints ELSE MutatingEndpoints

\* Before any call has returned.
NoResult ==
    [method |-> "none", url |-> "none", offlineSeen |-> FALSE,
     sent |-> FALSE, timerArmed |-> FALSE,
     state |-> "none", net |-> "none", body |-> NullData,
     fallback |-> FALSE, data |-> NullData, error |-> NoError]

(***************************************************************************)
(* Bounds                                                                  *)
(***************************************************************************)

\* Calls awaiting their HTTP request at one time where calls run side by side
\* (ConcSpec).  The calls are kept in a bag: two calls with the same arguments
\* are two calls.
MaxInFlight == 2

\* Calls awaiting their HTTP request at one time where the matter is what one
\* call returns (Spec).
SpecInFlight == 1

\* The length of a run of failed live requests that the observer tells apart.
FailThreshold == 2

(***************************************************************************)
(* Actions of the resilient fetcher                                        *)
(***************************************************************************)

\* Variant: a call that ends in a fallback result marks the backend offline.
StatusAfterCall_MarkOffline(backendStatus, c) ==
    IF c.state = "resolved" /\ c.fallback THEN "offline" ELSE backendStatus

\* The store's status after a step of a safeApi call (c: the call as the step
\* leaves it): the methods call useBackendStore.getState() and nothing else
\* of the store.
StatusAfterCall(backendStatus, c) == backendStatus

\* A caller invokes safeApi.<method>(url, config): the call returns at once
\* (its result goes to the caller) or awaits its HTTP request.
Call(method, url, cfg) ==
    LET c == Start(method, url, cfg, status)
    IN  /\ IF c.state = "pending"
           THEN calls' = calls (+) SetToBag({c}) /\ UNCHANGED lastResult
           ELSE lastResult' = c /\ UNCHANGED calls
        /\ status' = StatusAfterCall(status, c)
        /\ UNCHANGED failRun
        /\ UNCHANGED nonApiVars

\* The observer's count after a live request ended.
FailRunAfter(outcome) ==
    IF outcome.ok THEN 0
    ELSE IF failRun < FailThreshold THEN failRun + 1 ELSE failRun

\* The HTTP request of an awaiting call ends and the call returns its result.
Respond(c, outcome) ==
    /\ BagIn(c, calls)
    /\ calls' = calls (-) SetToBag({c})
    /\ lastResult' = Settle(c, outcome)
    /\ failRun' = FailRunAfter(outcome)
    /\ status' = StatusAfterCall(status, Settle(c, outcome))
    /\ UNCHANGED nonApiVars

\* The timer axios armed for an awaiting call fires before any response.
TimeoutFire(c) ==
    /\ BagIn(c, calls)
    /\ c.timerArmed
    /\ calls' = calls (-) SetToBag({c})
    /\ lastResult' = Settle(c, TimeoutError)
    /\ failRun' = FailRunAfter(TimeoutError)
    /\ status' = StatusAfterCall(status, Settle(c, TimeoutError))
    /\ UNCHANGED nonApiVars

(***************************************************************************)
(* The health store (store/backendStore): status is 'checking' until a     *)
(* probe completes, a probe cycle puts it back to 'checking'.              *)
(***************************************************************************)

ProbeStart ==
    /\ status \in {"online", "offline"}
    /\ status' = "checking"
    /\ UNCHANGED <<calls, lastResult, failRun>>
    /\ UNCHANGED nonApiVars

ProbeComplete(backendUp) ==
    /\ status = "checking"
    /\ status' = IF backendUp THEN "online" ELSE "offline"
    /\ UNCHANGED <<calls, lastResult, failRun>>
    /\ UNCHANGED nonApiVars

(***************************************************************************)
(* SensorMonitors (README.md): strings of a sensor log row                 *)
(***************************************************************************)

UpperCase == <<"A", "B", "C", "D", "E", "F", "G", "H", "I", "J", "K", "L", "M",
               "N", "O", "P", "Q", "R", "S", "T", "U", "V", "W", "X", "Y", "Z">>
LowerCase == <<"a", "b", "c", "d", "e", "f", "g", "h", "i", "j", "k", "l", "m",
               "n", "o", "p", "q", "r", "s", "t", "u", "v", "w", "x", "y", "z">>

LowerChar(c) ==
    IF \E i \in 1..26 : UpperCase[i] = c
    THEN LowerCase[CHOOSE i \in 1..26 : UpperCase[i] = c]
    ELSE c

\* String.prototype.toLowerCase
ToLowerCase(s) == [i \in 1..Len(s) |-> LowerChar(s[i])]

IsSpace(c) == c = " "

\* replace(/\s+/g, '_'): every maximal run of white space becomes one underscore
RECURSIVE ReplaceSpaces(_)
ReplaceSpaces(s) ==
    IF s = <<>> THEN <<>>
    ELSE IF IsSpace(Head(s))
         THEN IF Len(s) > 1 /\ IsSpace(s[2])
              THEN ReplaceSpaces(Tail(s))
              ELSE <<"_">> \o ReplaceSpaces(Tail(s))
         ELSE <<Head(s)>> \o ReplaceSpaces(Tail(s))

\* String.prototype.trim
RECURSIVE Trim(_)
Trim(s) ==
    IF s = <<>> THEN <<>>
    ELSE IF IsSpace(Head(s)) THEN Trim(Tail(s))
    ELSE IF IsSpace(s[Len(s)]) THEN Trim(SubSeq(s, 1, Len(s) - 1))
    ELSE s

\* a || b on strings: the empty string and undefined are falsy
OrElse(a, b) == IF a # <<>> THEN a ELSE b

(***************************************************************************)
(* SensorMonitors: the snapshot                                            *)
(***************************************************************************)

Channels == {"temperature", "vibration", "pressure", "motor_current", "wear_index"}

\* timestamp: '' in the initial entries
TsEmpty == 0
\* timestamp: undefined, a row with neither timestamp nor created_at
TsUndefined == -1
\* sensorId of an entry no row has written, and of a row without sensor_id
NoSensorId == "undefined"

\* useState(...): the entries before any data ("degC" stands for the degree
\* sign followed by C)
InitialMonitors ==
    [temperature |-> [name |-> "Temperature", value |-> 0, unit |-> "degC",
                      status |-> "normal", timestamp |-> TsEmpty, sensorId |-> NoSensorId],
     vibration |-> [name |-> "Vibration", value |-> 0, unit |-> "mm/s RMS",
                    status |-> "normal", timestamp |-> TsEmpty, sensorId |-> NoSensorId],
     pressure |-> [name |-> "Pressure", value |-> 0, unit |-> "bar",
                   status |-> "normal", timestamp |-> TsEmpty, sensorId |-> NoSensorId],
     motor_current |-> [name |-> "Motor Current", value |-> 0, unit |-> "A",
                        status |-> "normal", timestamp |-> TsEmpty, sensorId |-> NoSensorId],
     wear_index |-> [name |-> "Wear Index", value |-> 0, unit |-> "",
                     status |-> "normal", timestamp |-> TsEmpty, sensorId |-> NoSensorId]]

\* The `monitors` that fetchSensorData reads.  The effect that starts the
\* polling runs once per mount (its dependency, refreshInterval, is the
\* constant 2000 that Dashboard passes), so the fetchSensorData it calls and
\* hands to setInterval is the one of the first render, whose `monitors` is
\* the initial state.
CapturedMonitors == InitialMonitors

(***************************************************************************)
(* SensorMonitors: alias resolution                                        *)
(***************************************************************************)

\* typeMapping, in the order Object.entries yields it
typeMapping ==
    << <<"temperature", "temperature">>,
       <<"opcua_temperature", "temperature">>,
       <<"temp", "temperature">>,
       <<"vibration", "vibration">>,
       <<"opcua_vibration", "vibration">>,
       <<"vib", "vibration">>,
       <<"pressure", "pressure">>,
       <<"opcua_pressure", "pressure">>,
       <<"press", "pressure">>,
       <<"motor_current", "motor_current">>,
       <<"opcua_motor_current", "motor_current">>,
       <<"motorcurrent", "motor_current">>,
       <<"current", "motor_current">>,
       <<"wear_index", "wear_index">>,
       <<"opcua_wear_index", "wear_index">>,
       <<"wear", "wear_index">>,
       <<"wearindex", "wear_index">> >>

\* monitorKey when nothing matches
NoKey == "undefined"

\* The sensorType of a row: the first non-empty candidate, lower-cased (the two
\* names with their white space replaced), then trimmed.
SensorTypeOf(row) ==
    Trim(OrElse(ToLowerCase(Chars(row.alias)),
         OrElse(ToLowerCase(Chars(row.category)),
         OrElse(ToLowerCase(Chars(row.meta_sensor_type)),
         OrElse(ReplaceSpaces(ToLowerCase(Chars(row.meta_sensor_name))),
         OrElse(ToLowerCase(Chars(row.sensor_type)),
         OrElse(ReplaceSpaces(ToLowerCase(Chars(row.sensor_name))),
                <<>>)))))))

\* typeMapping[sensorType]
ExactKey(sensorType) ==
    IF \E i \in 1..Len(typeMapping) : Chars(typeMapping[i][1]) = sensorType
    THEN typeMapping[CHOOSE i \in 1..Len(typeMapping) :
                        Chars(typeMapping[i][1]) = sensorType][2]
    ELSE NoKey

PartialMatch(sensorType, i) ==
    \/ Includes(sensorType, Chars(typeMapping[i][1]))
    \/ Includes(Chars(typeMapping[i][1]), sensorType)

\* the loop over Object.entries(typeMapping): the first entry that contains
\* sensorType or is contained in it
PartialKey(sensorType) ==
    IF \E i \in 1..Len(typeMapping) : PartialMatch(sensorType, i)
    THEN typeMapping[CHOOSE i \in 1..Len(typeMapping) :
                        /\ PartialMatch(sensorType, i)
                        /\ \A j \in 1..(i - 1) : ~PartialMatch(sensorType, j)][2]
    ELSE NoKey

\* monitorKey: the exact match first, then the partial one
MonitorKey(sensorType) ==
    IF ExactKey(sensorType) # NoKey THEN ExactKey(sensorType)
    ELSE PartialKey(sensorType)

(***************************************************************************)
(* SensorMonitors: classification and units                                *)
(***************************************************************************)

\* Variant: the boundaries themselves already count as exceeded.
Tier_Inclusive(value, warning, critical) ==
    IF value >= critical THEN "critical"
    ELSE IF value >= warning THEN "warning" ELSE "normal"

\* value > critical ? 'critical' : value > warning ? 'warning' : 'normal'
Tier(value, warning, critical) ==
    IF value > critical THEN "critical"
    ELSE IF value > warning THEN "warning" ELSE "normal"

\* Variant: the pressure boundaries are applied to every channel.
StatusOf_OneTable(monitorKey, value) == Tier(value, 150, 180)

\* the threshold chain of fetchSensorData
StatusOf(monitorKey, value) ==
    CASE monitorKey = "temperature" -> Tier(value, 70, 80)
      [] monitorKey = "vibration" -> Tier(value, 4, 6)
      [] monitorKey = "pressure" -> Tier(value, 150, 180)
      [] monitorKey = "motor_current" -> Tier(value, 18, 22)
      [] monitorKey = "wear_index" -> Tier(value, 60, 80)
      [] OTHER -> "normal"

\* Variant: no `|| 0`, whatever the payload meant is passed on.
ParseValue_NoGuard(raw) == raw.n

\* parseFloat(sensor.value) || 0: a raw value is [numeric, n]
ParseValue(raw) == IF raw.numeric THEN raw.n ELSE 0

\* a || b on unit strings
UnitOr(a, b) == IF a # "" THEN a ELSE b

\* the unit of the new entry
UnitOf(monitorKey, row, captured) ==
    LET unit == UnitOr(row.meta_sensor_unit, UnitOr(row.meta_unit, row.sensor_unit))
    IN  IF monitorKey = "vibration" /\ ~Includes(Chars(unit), Chars("mm/s"))
        THEN "mm/s RMS"
        ELSE IF monitorKey = "wear_index" THEN ""
        ELSE IF unit = "" THEN captured[monitorKey].unit
        ELSE unit

\* sensor.timestamp || sensor.created_at
TimestampOf(row) == IF row.timestamp > 0 THEN row.timestamp ELSE row.created_at

\* Variant: no comparison, the row processed last wins.
IsNewer_LastWins(timestamp, latest) == TRUE

\* !latest.timestamp || new Date(timestamp) > new Date(latest.timestamp):
\* an undefined timestamp is an Invalid Date, which is greater than nothing
IsNewer(timestamp, latest) ==
    \/ latest.timestamp <= 0
    \/ (timestamp > 0 /\ timestamp > latest.timestamp)

(***************************************************************************)
(* SensorMonitors: the rows a poll may deliver                             *)
(***************************************************************************)

\* Rows in one response.
MaxBatch == 2

\* Instants a row may carry: 1..MaxTime, later is greater.
MaxTime == 2

NoHints ==
    [alias |-> "", category |-> "", meta_sensor_type |-> "", meta_sensor_name |-> "",
     sensor_type |-> "", sensor_name |-> "",
     meta_sensor_unit |-> "", meta_unit |-> "", sensor_unit |-> ""]

\* The sensors of the plant: an OPC UA temperature sensor known by its alias,
\* a vibration sensor known by its category that stamps created_at, and a
\* sensor of a kind the dashboard has no channel for.
Sensors ==
    {[NoHints EXCEPT !.alias = "OPCUA_Temperature"] @@ [sensor_id |-> "s1", stamp |-> "timestamp"],
     [NoHints EXCEPT !.category = "vibration", !.meta_unit = "mm/s"] @@ [sensor_id |-> "s2", stamp |-> "created_at"],
     [NoHints EXCEPT !.alias = "humidity", !.sensor_unit = "psi"] @@ [sensor_id |-> "s3", stamp |-> "timestamp"]}

RawValues == {[numeric |-> TRUE, n |-> 85]}

RowTimes == 1..MaxTime \cup {TsUndefined}

\* One row of GET /sensor-data/logs
Row(s, raw, t) ==
    [alias |-> s.alias, category |-> s.category,
     meta_sensor_type |-> s.meta_sensor_type, meta_sensor_name |-> s.meta_sensor_name,
     sensor_type |-> s.sensor_type, sensor_name |-> s.sensor_name,
     meta_sensor_unit |-> s.meta_sensor_unit, meta_unit |-> s.meta_unit,
     sensor_unit |-> s.sensor_unit, sensor_id |-> s.sensor_id,
     value |-> raw,
     timestamp |-> IF s.stamp = "timestamp" THEN t ELSE TsUndefined,
     created_at |-> IF s.stamp = "created_at" THEN t ELSE TsUndefined]

Rows == {Row(s, raw, t) : s \in Sensors, raw \in RawValues, t \in RowTimes}

Batches == UNION {[1..n -> Rows] : n \in 0..MaxBatch}

(***************************************************************************)
(* Rows for the aggregation on its own: one sensor per channel, each named *)
(* through another hint field; values around every threshold; sensors with *)
(* no hint, with a hint for no channel, and with two differing hints.      *)
(***************************************************************************)
ChannelSensors ==
    {[NoHints EXCEPT !.meta_sensor_type = "Temperature"] @@ [sensor_id |-> "c1", stamp |-> "timestamp"],
     [NoHints EXCEPT !.category = "vibration"] @@ [sensor_id |-> "c2", stamp |-> "timestamp"],
     [NoHints EXCEPT !.sensor_type = "pressure"] @@ [sensor_id |-> "c3", stamp |-> "timestamp"],
     [NoHints EXCEPT !.meta_sensor_name = "Motor Current"] @@ [sensor_id |-> "c4", stamp |-> "timestamp"],
     [NoHints EXCEPT !.sensor_name = "Wear Index"] @@ [sensor_id |-> "c5", stamp |-> "timestamp"]}

HintSensors ==
    {NoHints @@ [sensor_id |-> "h1", stamp |-> "timestamp"],
     [NoHints EXCEPT !.alias = "humidity"] @@ [sensor_id |-> "h2", stamp |-> "timestamp"],
     [NoHints EXCEPT !.alias = "humidity", !.category = "vibration"] @@ [sensor_id |-> "h3", stamp |-> "timestamp"],
     [NoHints EXCEPT !.alias = "OPCUA_Temperature", !.category = "pressure"] @@ [sensor_id |-> "h4", stamp |-> "timestamp"],
     [NoHints EXCEPT !.sensor_type = "flow", !.sensor_name = "Wear Index"] @@ [sensor_id |-> "h5", stamp |-> "timestamp"]}

\* sensor.value: numbers on both sides of every warning and critical boundary
ThresholdValues ==
    {0, 3, 4, 5, 6, 7, 17, 18, 19, 21, 22, 23, 59, 60, 61, 69, 70, 71, 79, 80, 81,
     149, 150, 151, 179, 180, 181, 500}

\* sensor.value that parseFloat does not read as a number (a text without
\* digits, or no value at all); n is what the payload would have meant
NonNumeric == [numeric |-> FALSE, n |-> 85]

WideValues == {[numeric |-> TRUE, n |-> v] : v \in ThresholdValues} \cup {NonNumeric}

\* Single readings
WideRows == {Row(s, raw, 1) : s \in ChannelSensors \cup HintSensors, raw \in WideValues}

\* Readings of one vibration sensor, to be given in pairs
PairSensor == [NoHints EXCEPT !.category = "vibration", !.meta_unit = "mm/s"]
                 @@ [sensor_id |-> "s2", stamp |-> "timestamp"]

PairRows ==
    {Row(PairSensor, raw, t) : raw \in {[numeric |-> TRUE, n |-> 3], [numeric |-> TRUE, n |-> 5],
                                        NonNumeric},
                               t \in 1..MaxTime}

\* The batches given to the aggregation on its own
AggBatches ==
    Batches \cup {<<r>> : r \in WideRows} \cup {<<a, b>> : a \in PairRows, b \in PairRows}

\* The channel fetchSensorData files each row under (NoKey: none), evaluated
\* once for the rows of the model.
ChannelOf == [row \in Rows \cup WideRows \cup PairRows |-> MonitorKey(SensorTypeOf(row))]

KeyOf(row) == ChannelOf[row]

\* The channels for which the rows hold a reading
ResolvedIn(rows) == {KeyOf(rows[i]) : i \in 1..Len(rows)} \cap Channels

\* The newest instant the rows hold for the channel (0: none)
NewestIn(rows, ch) ==
    LET ts == {TimestampOf(rows[i]) : i \in {j \in 1..Len(rows) : KeyOf(rows[j]) = ch}}
             \cap (1..MaxTime)
    IN  IF ts = {} THEN 0 ELSE CHOOSE t \in ts : \A u \in ts : u <= t

Max(a, b) == IF a >= b THEN a ELSE b

(***************************************************************************)
(* SensorMonitors: fetchSensorData                                         *)
(***************************************************************************)

\* Variant: an accepted row adds its value to the one the entry shows.
ApplyRow_Accumulate(latestValues, row, captured) ==
    LET monitorKey == KeyOf(row)
        value == ParseValue(row.value)
        timestamp == TimestampOf(row)
    IN  IF monitorKey \in DOMAIN latestValues
           /\ IsNewer(timestamp, latestValues[monitorKey])
        THEN [latestValues EXCEPT ![monitorKey] =
                [name |-> captured[monitorKey].name,
                 value |-> latestValues[monitorKey].value + value,
                 unit |-> UnitOf(monitorKey, row, captured),
                 status |-> StatusOf(monitorKey, value),
                 timestamp |-> timestamp,
                 sensorId |-> row.sensor_id]]
        ELSE latestValues

\* the body of sensorData.forEach for one row; KeyOf(row) is
\* MonitorKey(SensorTypeOf(row))
ApplyRow(latestValues, row, captured) ==
    LET monitorKey == KeyOf(row)
        value == ParseValue(row.value)
        timestamp == TimestampOf(row)
    IN  IF monitorKey \in DOMAIN latestValues
           /\ IsNewer(timestamp, latestValues[monitorKey])
        THEN [latestValues EXCEPT ![monitorKey] =
                [name |-> captured[monitorKey].name,
                 value |-> value,
                 unit |-> UnitOf(monitorKey, row, captured),
                 status |-> StatusOf(monitorKey, value),
                 timestamp |-> timestamp,
                 sensorId |-> row.sensor_id]]
        ELSE latestValues

\* latestValues = { ...monitors } followed by the forEach over the rows
RECURSIVE ApplyRows(_, _, _)
ApplyRows(latestValues, rows, captured) ==
    IF rows = <<>> THEN latestValues
    ELSE ApplyRows(ApplyRow(latestValues, Head(rows), captured), Tail(rows), captured)

Aggregate(captured, rows) == ApplyRows(captured, rows, captured)

\* Variant: no early return, setMonitors(latestValues) also after an empty or
\* non-array body.
FetchSensorData_NoEarlyReturn(captured, current, response) ==
    IF response.kind = "error" THEN current
    ELSE Aggregate(captured, response.rows)

\* The `monitors` state after fetchSensorData handled a response, `current`
\* being the state before: a rejected request, a non-array body and an empty
\* array return without setMonitors.
FetchSensorData(captured, current, response) ==
    IF response.kind = "error" THEN current
    ELSE IF response.kind = "nonarray" THEN current
    ELSE IF response.rows = <<>> THEN current
    ELSE Aggregate(captured, response.rows)


(***************************************************************************)
(* LiveDataTable.tsx: fetchLiveData                                        *)
(* One round: both safeApi.get calls, which read the store's status, are  *)
(* awaited through Promise.all; the rest of the function, up to its        *)
(* finally, runs when they have settled. The interval starts further       *)
(* rounds meanwhile.                                                       *)
(***************************************************************************)

\* A response body that is neither empty nor an array (an error envelope sent
\* with status 200): `.forEach` on it is a TypeError.
NotAList == [kind |-> "object", type |-> "error_envelope"]

\* The rows of GET /sensor-data/logs the table is given (`sort=desc`: the
\* newest): those of the temperature and the vibration sensor at the two
\* newest instants
TableLogRows ==
    {r \in Rows : /\ TimestampOf(r) > 0
                  /\ TimestampOf(r) >= MaxTime - 1
                  /\ r.sensor_id \in {"s1", "s2"}}

\* One item of GET /predictions; score and confidence in hundredths
Prediction(t, score, confidence, st, p) ==
    [timestamp |-> t, score |-> score, confidence |-> confidence, status |-> st,
     prediction |-> p]

TablePredictions ==
    {Prediction(1, 90, 80, "critical", "anomaly"), Prediction(2, 0, 70, "warning", "normal")}

\* Items of a 2xx list of logs that the loop of line 40 cannot take: null; a
\* log without sensor object, category and alias whose sensor_id is a number;
\* a log without sensor type and category whose metadata.alias is a number.
\* json is the JSON type of the item, alias the type of metadata.alias, name
\* the type of `sensor.sensor?.name || sensor.sensor_id || 'Unknown'`.
OddLogs ==
    {[json |-> "null", alias |-> "undefined", name |-> "undefined"],
     [json |-> "object", alias |-> "undefined", name |-> "number"],
     [json |-> "object", alias |-> "number", name |-> "string"]}

\* An item of a 2xx list of predictions that the loop of line 80 cannot take
OddPredictions == {[json |-> "null"]}

\* Lists of at most two items
ShortLists(S) == {<<>>} \cup {<<a>> : a \in S} \cup {<<a, b>> : a \in S, b \in S}

\* response.data of a 2xx answer: a list of items or of items and odd items,
\* nothing, or something else
TableBodies(type, S, odd) ==
    {[kind |-> "list", type |-> type, items |-> s] : s \in ShortLists(S \cup odd)}
        \cup {NullData, NotAList}

\* What `await safeApi.get(url)` gives a round whose call read the status
\* seen: the short circuit when that was 'offline', else the settled request
TableResults(url, bodies, seen) ==
    LET c == GetStart(url, TimeoutUndefined, seen)
    IN  IF c.state = "resolved" THEN {c}
        ELSE {GetSettle(c, o) :
                o \in {[ok |-> TRUE, net |-> "ok", body |-> b, message |-> ""] : b \in bodies}
                        \cup {o \in Outcomes(url) : ~o.ok} \cup {TimeoutError}}

SensorDataResults ==
    [seen \in {"online", "offline"} |->
        TableResults("/sensor-data/logs?limit=20&sort=desc",
                     TableBodies("sensor_log", TableLogRows, OddLogs), seen)]

PredictionsResults ==
    [seen \in {"online", "offline"} |->
        TableResults("/predictions?limit=20&sort=desc",
                     TableBodies("prediction", TablePredictions, OddPredictions), seen)]

\* The run stays within so many rounds of the table awaiting their requests
\* at once (the interval starts one every 2000 ms, a request is given up
\* after 5000 ms)
MaxTablePending == 2

\* One round awaiting its Promise.all: whether its calls read 'offline'
TableRoundOf(backendStatus) == [offlineSeen |-> backendStatus = "offline"]

\* A status under which the calls of round r do what they did
TableSeenBy(r) == IF r.offlineSeen THEN "offline" ELSE "online"

\* The rounds awaiting once the i-th of them has been handled
RoundsAfter(rs, i) == [j \in 1..(Len(rs) - 1) |-> IF j < i THEN rs[j] ELSE rs[j + 1]]

\* `result.data || []`
ItemsOr(data) == IF data.kind = "list" THEN data.items ELSE <<>>

\* The callback of sensorData.forEach throws a TypeError on the item: a
\* property of null is read (line 41), or toLowerCase, which only a string
\* has, is called on metadata.alias (line 55) or, when there is no alias, on
\* sensorName (line 56)
LogThrows(sensor) ==
    /\ "json" \in DOMAIN sensor
    /\ \/ sensor.json = "null"
       \/ sensor.alias = "number"
       \/ sensor.alias = "undefined" /\ sensor.name = "number"

\* The callback of predictions.forEach throws a TypeError on the item: a
\* property of null is read (line 81)
PredictionThrows(pred) == "json" \in DOMAIN pred /\ pred.json = "null"

\* `sensorData.forEach(...)` (loop "sensorData") or `predictions.forEach(...)`
\* (loop "predictions") throws: forEach is not a function of data, or the
\* callback throws on an item
ForEachThrows(data, loop) ==
    \/ data.kind \notin {"list", "null"}
    \/ /\ data.kind = "list"
       /\ \E i \in DOMAIN data.items :
             IF loop = "sensorData" THEN LogThrows(data.items[i])
             ELSE PredictionThrows(data.items[i])

\* `sensor.sensor?.name || sensor.sensor_id || 'Unknown'`
TableSensorName(sensor) ==
    OrElse(Chars(sensor.sensor_name), OrElse(Chars(sensor.sensor_id), Chars("Unknown")))

\* `sensor.sensor?.sensor_type || sensor.metadata?.category ||
\*  sensor.metadata?.alias?.toLowerCase() || sensorName.toLowerCase().replace(/\s+/g, '_')`
TableSensorType(sensor) ==
    OrElse(Chars(sensor.sensor_type),
    OrElse(Chars(sensor.category),
    OrElse(ToLowerCase(Chars(sensor.alias)),
           ReplaceSpaces(ToLowerCase(TableSensorName(sensor))))))

\* `typeMap[sensorType] || sensorType`
NormalizedType(sensorType) ==
    CASE sensorType = Chars("opcua_temperature") -> Chars("temperature")
      [] sensorType = Chars("opcua_vibration") -> Chars("vibration")
      [] sensorType = Chars("opcua_motor_current") -> Chars("motor_current")
      [] sensorType = Chars("opcua_pressure") -> Chars("pressure")
      [] sensorType = Chars("opcua_wear_index") -> Chars("wear")
      [] OTHER -> sensorType

\* The normalizedType of each row of the model, evaluated once.
TableTypeOf == [row \in TableLogRows |-> NormalizedType(TableSensorType(row))]

\* Date.getTime() of an instant: the instants are seconds
MsOf(t) == t * 1000

\* The keys of sensorMap in insertion order
RECURSIVE EntryKeys(_)
EntryKeys(sensorData) ==
    IF sensorData = <<>> THEN <<>>
    ELSE LET front == EntryKeys(SubSeq(sensorData, 1, Len(sensorData) - 1))
             key == TimestampOf(sensorData[Len(sensorData)])
         IN  IF \E i \in 1..Len(front) : front[i] = key THEN front ELSE Append(front, key)

\* `entry.sensors[type]?.value || 0`: the row written last under the key and type
SensorValue(sensorData, key, type) ==
    LET written == {i \in 1..Len(sensorData) :
                      /\ TimestampOf(sensorData[i]) = key
                      /\ TableTypeOf[sensorData[i]] = Chars(type)}
    IN  IF written = {} THEN 0
        ELSE ParseValue(sensorData[CHOOSE i \in written : \A j \in written : j <= i].value)

Abs(n) == IF n < 0 THEN -n ELSE n

\* The entry a prediction is attached to: the first within 5 seconds (0: none)
MatchedKey(pred, keys) ==
    LET near == {i \in 1..Len(keys) : Abs(MsOf(pred.timestamp) - MsOf(keys[i])) < 5000}
    IN  IF near = {} THEN 0 ELSE keys[CHOOSE i \in near : \A j \in near : i <= j]

\* `entry.prediction || {}`
NoPrediction == Prediction(0, 0, 0, "undefined", "undefined")

\* entry.prediction after the loop: the last prediction attached to the entry
EntryPrediction(predictions, keys, key) ==
    LET attached == {i \in 1..Len(predictions) : MatchedKey(predictions[i], keys) = key}
    IN  IF attached = {} THEN NoPrediction
        ELSE predictions[CHOOSE i \in attached : \A j \in attached : j <= i]

\* `pred.score || pred.confidence || 0`
AnomalyOf(pred) ==
    IF pred.score # 0 THEN pred.score ELSE IF pred.confidence # 0 THEN pred.confidence ELSE 0

PredictionLabel(pred) ==
    IF pred.prediction = "anomaly" THEN "Anomaly"
    ELSE IF pred.status = "warning" THEN "Warning"
    ELSE IF pred.status = "critical" THEN "Critical"
    ELSE "Healthy"

\* `.sort((a, b) => b.timestamp.getTime() - a.timestamp.getTime())` over distinct keys
RECURSIVE SortDesc(_)
SortDesc(keys) ==
    IF keys = <<>> THEN <<>>
    ELSE LET m == CHOOSE i \in 1..Len(keys) : \A j \in 1..Len(keys) : keys[j] <= keys[i]
         IN  <<keys[m]>> \o SortDesc([i \in 1..Len(keys) - 1 |->
                                        IF i < m THEN keys[i] ELSE keys[i + 1]])

\* toLocaleTimeString: the time of day, the date is dropped
TimeOfDay(t) == t % 86400

\* tableData
TableData(sensorData, predictions) ==
    LET keys == EntryKeys(sensorData)
        sorted == SortDesc(keys)
        top == SubSeq(sorted, 1, IF Len(sorted) < 10 THEN Len(sorted) ELSE 10)
    IN  [i \in 1..Len(top) |->
           LET pred == EntryPrediction(predictions, keys, top[i])
           IN  [timestamp |-> TimeOfDay(top[i]),
                temperature |-> SensorValue(sensorData, top[i], "temperature"),
                vibration |-> SensorValue(sensorData, top[i], "vibration"),
                anomaly |-> AnomalyOf(pred),
                prediction |-> PredictionLabel(pred),
                machine |-> "Unknown"]]

\* TableData of every pair of payloads a live answer carries, computed once
TableDataOf ==
    [sensorData \in ShortLists(TableLogRows) |->
        [predictions \in ShortLists(TablePredictions) |->
            TableData(sensorData, predictions)]]

\* fetchLiveData from the await on: what `data` and `isFallback` are set to.
\* A throw of either loop is caught (lines 114-116): setIsFallback(true)
\* overrides the setIsFallback(false) of line 32 and setData is not reached.
FetchLiveData(data, sensorDataResult, predictionsResult) ==
    IF sensorDataResult.fallback \/ predictionsResult.fallback
    THEN [data |-> data, isFallback |-> TRUE]
    ELSE IF \/ ForEachThrows(sensorDataResult.data, "sensorData")
            \/ ForEachThrows(predictionsResult.data, "predictions")
    THEN [data |-> data, isFallback |-> TRUE]
    ELSE [data |-> TableDataOf[ItemsOr(sensorDataResult.data)][ItemsOr(predictionsResult.data)],
          isFallback |-> FALSE]

(***************************************************************************)
(* OfflineIndicator (components/OfflineIndicator.tsx)                      *)
(* Each mounted instance keeps its own `status` and `isChecking`; its      *)
(* effect calls checkServices at once and then every 30 seconds.           *)
(***************************************************************************)

\* setInterval(checkServices, 30000)
CheckInterval == 30000

\* The clock counts ticks of ten seconds, from 1.
IntervalTicks == CheckInterval \div 10000

\* The last instant of the clock
MaxNow == 5

\* The instances that may be mounted
Indicators == {"i1", "i2"}

NoTimer == 0

\* useState<ServiceStatus>({ backend: true, ai: true, mqtt: true, lastCheck: 0 })
InitialStatus == [backend |-> TRUE, ai |-> TRUE, mqtt |-> TRUE, lastCheck |-> 0]

\* An instance that is not mounted; mounted, it starts from these values:
\* useState(false) for isChecking, no effect run, no interval, nothing awaited.
Unmounted ==
    [mounted |-> FALSE, effectRan |-> FALSE, status |-> InitialStatus,
     isChecking |-> FALSE, awaiting |-> FALSE, nextTick |-> NoTimer]

\* Variant: any service down counts as offline.
IsOffline_AnyDown(st) == ~(st.backend /\ st.ai /\ st.mqtt)

\* `const isOffline = !status.backend`
IsOffline(st) == ~st.backend

\* What the instance renders: "Checking services...", "Offline Mode", or the
\* list of services that are up.
IndicatorHealth(ind) ==
    IF ind.isChecking THEN "checking"
    ELSE IF IsOffline(ind.status) THEN "offline"
    ELSE "online"

(***************************************************************************)
(* ServiceHealthChecker (utils/offlineMode): checkServices                 *)
(* A probe asks the backend, the AI service and MQTT; a call made while a  *)
(* probe is in flight waits for that probe, a call made less than one      *)
(* interval after the last probe started is answered with its health.      *)
(***************************************************************************)

\* No probe yet
IdleChecker ==
    [inFlight |-> 0, startedAt |-> 0, prevStartedAt |-> 0, health |-> InitialStatus]

\* Variant: every call starts a probe of its own.
CheckServices_EveryCall(chk, t) ==
    [chk EXCEPT !.inFlight = @ + 1, !.startedAt = t, !.prevStartedAt = chk.startedAt]

\* checkServices() called at instant t: the checker afterwards
CheckServices(chk, t) ==
    IF chk.inFlight > 0 THEN chk
    ELSE IF chk.startedAt > 0 /\ t - chk.startedAt < IntervalTicks THEN chk
    ELSE [chk EXCEPT !.inFlight = 1, !.startedAt = t, !.prevStartedAt = chk.startedAt]

\* The health a finished probe reports
HealthOf(backendUp, aiUp, mqttUp, t) ==
    [backend |-> backendUp, ai |-> aiUp, mqtt |-> mqttUp, lastCheck |-> t]

(***************************************************************************)
(* Dashboard.tsx: the polling effect, fetchDashboardData, handleSystemReset *)
(* The clock is Date.now() in milliseconds and advances by whole seconds.  *)
(***************************************************************************)

REFRESH_INTERVAL == 3000

MIN_FETCH_INTERVAL == 2000

\* The last second of the clock
MaxSeconds == 3

\* Fetch rounds the Dashboard starts in one run, and fetch rounds awaiting
\* their Promise.all at one time
MaxStarts == 2

MaxPending == 1

\* The same for the Dashboard left to itself
AutoStarts == 4

AutoPending == 2

\* intervalRef.current === null
NoInterval == -1

\* What a render reads: backendStatus from the store, four of the states
View(backendStatus, auto, fallback, resetting, loading) ==
    [backendStatus |-> backendStatus, autoRefresh |-> auto,
     isFallback |-> fallback, isResetting |-> resetting, isLoading |-> loading]

\* The component before its first render: the useState and useRef initial
\* values. view is what the last render read (the event
\* handlers and the next effect run close over it); seenStatus and
\* seenAutoRefresh are what the last effect run closed over (the interval
\* callback reads them). aiStatus is the status field of the aiStatus state;
\* shown is the round whose results the data states hold (0: none); started
\* counts the rounds; wasOffline observes the store, liveFailure the rounds
\* (one whose requests were sent came back with a substitute or with the AI
\* not healthy).
InitialDash ==
    [phase |-> "unrendered", mountedRef |-> TRUE, lastFetchRef |-> 0, intervalRef |-> NoInterval,
     view |-> View("checking", TRUE, FALSE, FALSE, TRUE),
     seenStatus |-> "checking", seenAutoRefresh |-> TRUE,
     isLoading |-> TRUE, isFallback |-> FALSE, autoRefresh |-> TRUE,
     aiStatus |-> "null",
     isResetting |-> FALSE, resetMessage |-> "null", resetCalls |-> {},
     shown |-> 0, started |-> 0, wasOffline |-> FALSE, liveFailure |-> FALSE]

\* One fetch round awaiting its Promise.all: its number, Date.now() at its
\* start, isInitial, and whether its safeApi.get calls read 'offline' (the
\* one thing they ask of the status: `if (status === 'offline')`)
Round(seq, t, isInitial, backendStatus) ==
    [seq |-> seq, startedAt |-> t, initial |-> isInitial,
     offlineSeen |-> backendStatus = "offline"]

\* A status under which the calls of round r do what they did
SeenBy(r) == IF r.offlineSeen THEN "offline" ELSE "online"

\* `if (!isInitial && (now - lastFetchRef.current < MIN_FETCH_INTERVAL)) return`
Throttled(isInitial, t, lastFetch) == ~isInitial /\ t - lastFetch < MIN_FETCH_INTERVAL

\* fetchDashboardData(isInitial) up to its await: the component afterwards
StartFetch(d, isInitial, t) ==
    IF Throttled(isInitial, t, d.lastFetchRef) THEN d
    ELSE [d EXCEPT !.lastFetchRef = t,
                   !.isLoading = IF isInitial THEN @ ELSE FALSE,
                   !.started = @ + 1]

\* The rounds afterwards
StartRound(d, rs, isInitial, t, backendStatus) ==
    IF Throttled(isInitial, t, d.lastFetchRef) THEN rs
    ELSE rs \cup {Round(d.started + 1, t, isInitial, backendStatus)}

\* What a render of the component would read now
CurrentView(d, backendStatus) ==
    View(backendStatus, d.autoRefresh, d.isFallback, d.isResetting, d.isLoading)

\* A state or the store's status has changed since the last render
RenderPending(d, backendStatus) ==
    d.phase = "mounted" /\ d.view # CurrentView(d, backendStatus)

\* The component renders
Render(d, backendStatus) == [d EXCEPT !.view = CurrentView(d, backendStatus)]

\* The effect of the last render has yet to run: the first render's, or
\* that of a render whose backendStatus or autoRefresh differ from those of
\* the render before (the dependencies of line 131)
EffectPending(d) ==
    \/ d.phase = "rendered"
    \/ /\ d.phase = "mounted"
       /\ <<d.view.backendStatus, d.view.autoRefresh>> # <<d.seenStatus, d.seenAutoRefresh>>

\* The effect body with backendStatus and autoRefresh of the last render: the
\* initial fetch, then the interval (the cleanup of the run before has
\* cleared the old one and the new run sets mountedRef again)
RunEffect(d, t) ==
    [StartFetch(d, TRUE, t) EXCEPT
        !.phase = "mounted", !.mountedRef = TRUE, !.intervalRef = t + REFRESH_INTERVAL,
        !.seenStatus = d.view.backendStatus, !.seenAutoRefresh = d.view.autoRefresh]

\* A render that React carries out at once, the effect included when its
\* dependencies changed (the updates of a click are flushed at the end of
\* the event): the component afterwards
Flush(d, t, backendStatus) ==
    IF EffectPending(Render(d, backendStatus))
    THEN RunEffect(Render(d, backendStatus), t)
    ELSE Render(d, backendStatus)

\* The rounds afterwards
FlushRounds(d, rs, t, backendStatus) ==
    IF EffectPending(Render(d, backendStatus))
    THEN StartRound(d, rs, TRUE, t, backendStatus)
    ELSE rs

\* `mountedRef.current && backendStatus === 'online' && autoRefresh`
TickGuard(d) == d.mountedRef /\ d.seenStatus = "online" /\ d.seenAutoRefresh

\* response.data of GET /ai/status
AiBodies ==
    {LiveBody("/ai/status") @@ [status |-> s] : s \in {"healthy", "degraded"}}

\* What `await safeApi.get('/ai/status')` gives a round whose calls read the
\* status seen: the short circuit, a live body, or the substitute after a
\* request that failed (here: timed out)
AiResults(seen) ==
    LET c == GetStart("/ai/status", TimeoutUndefined, seen)
    IN  IF c.state = "resolved" THEN {c}
        ELSE {GetSettle(c, o) :
                o \in {[ok |-> TRUE, net |-> "ok", body |-> b, message |-> ""] : b \in AiBodies}
                        \cup {TimeoutError}}

\* aiResult.data.status
AiStatusOf(data) ==
    IF "status" \in DOMAIN data THEN data.status
    ELSE IF "value" \in DOMAIN data THEN data.value.status
    ELSE "undefined"

\* `aiResult.fallback || (aiResult.data && aiResult.data.status !== 'healthy')`
AiOffline(aiResult) ==
    \/ aiResult.fallback
    \/ aiResult.data.kind # "null" /\ AiStatusOf(aiResult.data) # "healthy"

\* Variant: the results are applied whether or not the component is mounted.
ApplyRound_NoMountedCheck(d, r, aiResult, othersFallback) ==
    [d EXCEPT !.isFallback = aiResult.fallback \/ othersFallback,
              !.autoRefresh = IF AiOffline(aiResult) THEN FALSE ELSE @,
              !.aiStatus = IF aiResult.data.kind # "null"
                           THEN AiStatusOf(aiResult.data) ELSE @,
              !.shown = r.seq, !.isLoading = FALSE]

\* fetchDashboardData from its await on: the component afterwards
ApplyRound(d, r, aiResult, othersFallback) ==
    IF ~d.mountedRef THEN d
    ELSE [d EXCEPT !.isFallback = aiResult.fallback \/ othersFallback,
                   !.autoRefresh = IF AiOffline(aiResult) THEN FALSE ELSE @,
                   !.aiStatus = IF aiResult.data.kind # "null"
                           THEN AiStatusOf(aiResult.data) ELSE @,
              !.shown = r.seq, !.isLoading = FALSE]

\* The reset button of a render:
\* `disabled={isResetting || isFallback || backendStatus !== 'online'}`
ResetDisabled(view) ==
    view.isResetting \/ view.isFallback \/ view.backendStatus # "online"

\* handleSystemReset up to its await: the early returns on isResetting,
\* isFallback and backendStatus as the last render read them,
\* window.confirm, setIsResetting(true) and the call of safeApi.post, which
\* reads the store
HandleSystemReset(d, confirmed, storeStatus) ==
    IF d.view.isResetting THEN d
    ELSE IF d.view.isFallback \/ d.view.backendStatus # "online"
    THEN [d EXCEPT !.resetMessage = "unavailable"]
    ELSE IF ~confirmed THEN d
    ELSE [d EXCEPT !.isResetting = TRUE, !.resetMessage = "null",
                   !.resetCalls = @ \cup
                       {PostStart("/system/reset", TimeoutUndefined, storeStatus)}]

(***************************************************************************)
(* The derived metrics window (spec 4.7) and the Extruder Risk card of     *)
(* Dashboard.tsx                                                           *)
(***************************************************************************)

\* Series and aggregates whose tiers a window carries
MaxSeries == 4

\* green, yellow, red: the later the more severe
RiskTiers == <<"green", "yellow", "red">>

TierRank(t) == CHOOSE i \in 1..3 : RiskTiers[i] = t

\* The tiers computed for one window
Windows == UNION {[1..n -> {"green", "yellow", "red"}] : n \in 0..MaxSeries}

\* overallRisk: the worst of the computed tiers, 'unknown' for an empty window
OverallRisk(tiers) ==
    IF tiers = <<>> THEN "unknown"
    ELSE CHOOSE t \in {tiers[i] : i \in 1..Len(tiers)} :
            \A i \in 1..Len(tiers) : TierRank(t) >= TierRank(tiers[i])

\* mssqlDerived is null, or carries no risk.overall
NoOverall == ""

UpperChar(c) ==
    IF \E i \in 1..26 : LowerCase[i] = c
    THEN UpperCase[CHOOSE i \in 1..26 : LowerCase[i] = c]
    ELSE c

\* String.prototype.toUpperCase
ToUpperCase(s) == [i \in 1..Len(s) |-> UpperChar(s[i])]

\* className of the large text
RiskTextClass(overall) ==
    IF overall = "red" THEN "text-rose-600"
    ELSE IF overall = "yellow" THEN "text-amber-600"
    ELSE IF overall = "green" THEN "text-emerald-600"
    ELSE "text-slate-400"

\* overall ? overall.toUpperCase() : '--'
RiskText(overall) ==
    IF overall # NoOverall THEN ToUpperCase(Chars(overall)) ELSE <<"-", "-">>

NoBadge == "none"

\* className of the badge, rendered for a truthy overall only
RiskBadgeClass(overall) ==
    IF overall = NoOverall THEN NoBadge
    ELSE IF overall = "red" THEN "bg-rose-50 text-rose-700 border border-rose-200"
    ELSE IF overall = "yellow" THEN "bg-amber-50 text-amber-800 border border-amber-200"
    ELSE "bg-emerald-50 text-emerald-700 border border-emerald-200"

\* the badge's label
RiskBadge(overall) ==
    IF overall = NoOverall THEN NoBadge
    ELSE IF overall = "red" THEN "Critical"
    ELSE IF overall = "yellow" THEN "Warning"
    ELSE IF overall = "green" THEN "Normal"
    ELSE "Unknown"

\* The card as rendered for a window's tiers and the overall value received
RiskCard(tiers, overall) ==
    [rendered |-> TRUE, tiers |-> tiers, overall |-> overall,
     text |-> RiskText(overall), textClass |-> RiskTextClass(overall),
     badge |-> RiskBadge(overall), badgeClass |-> RiskBadgeClass(overall)]

\* No card rendered yet
NoCard ==
    [rendered |-> FALSE, tiers |-> <<>>, overall |-> NoOverall,
     text |-> <<>>, textClass |-> "none", badge |-> NoBadge, badgeClass |-> NoBadge]
(***************************************************************************)
(* Actions of SensorMonitors: one per way a poll ends.  The continuation   *)
(* after `await api.get(...)` runs to completion, setMonitors included.    *)
(***************************************************************************)

PollHandled(response, kind) ==
    /\ monitors' = FetchSensorData(CapturedMonitors, monitors, response)
    /\ isFallback' = FALSE
    /\ isLoading' = FALSE
    /\ lastPoll' = [kind |-> kind,
                    resolved |-> IF kind = "rows" THEN ResolvedIn(response.rows) ELSE {}]
    /\ maxSeen' = [ch \in Channels |->
                     IF kind = "rows" THEN Max(maxSeen[ch], NewestIn(response.rows, ch))
                     ELSE maxSeen[ch]]
    /\ UNCHANGED apiVars
    /\ UNCHANGED <<aggVars, tableVars, indVars, dashVars, riskCard>>

\* response.data is a non-empty array
PollRows(rows) ==
    /\ rows # <<>>
    /\ PollHandled([kind |-> "array", rows |-> rows], "rows")

\* response.data is an empty array (or missing: `response.data || []`)
PollEmpty == PollHandled([kind |-> "array", rows |-> <<>>], "empty")

\* response.data is not an array
PollNonArray == PollHandled([kind |-> "nonarray", rows |-> <<>>], "nonarray")

\* api.get rejects
PollError == PollHandled([kind |-> "error", rows |-> <<>>], "error")

(***************************************************************************)
(* The aggregation of fetchSensorData on its own, over a wider choice of   *)
(* rows than the polls above deliver                                       *)
(***************************************************************************)

\* latestValues = { ...monitors }, the forEach over the batch and
\* setMonitors(latestValues), from the initial monitors
AggregateBatch(rows) ==
    /\ aggPasses = 0
    /\ aggRows' = rows
    /\ aggSnap' = Aggregate(InitialMonitors, rows)
    /\ aggPasses' = 1
    /\ UNCHANGED apiVars
    /\ UNCHANGED <<monVars, tableVars, indVars, dashVars, riskCard>>

\* The same over the same batch, from the monitors the first pass set
AggregateAgain ==
    /\ aggPasses = 1
    /\ aggSnap' = Aggregate(aggSnap, aggRows)
    /\ aggPasses' = 2
    /\ UNCHANGED aggRows
    /\ UNCHANGED apiVars
    /\ UNCHANGED <<monVars, tableVars, indVars, dashVars, riskCard>>

(***************************************************************************)
(* Action of LiveDataTable                                                 *)
(***************************************************************************)

\* No round of the table has settled whose continuation has yet to run: a
\* round whose calls read 'offline' goes on before any timer or event
NoTableRoundSettled == \A i \in DOMAIN tblRounds : ~tblRounds[i].offlineSeen

\* fetchLiveData up to its await, called by the effect or by the interval:
\* its two safeApi.get calls read the store's status
TablePoll ==
    /\ Len(tblRounds) < MaxTablePending
    /\ NoTableRoundSettled
    /\ tblRounds' = Append(tblRounds, TableRoundOf(status))
    /\ UNCHANGED <<tblData, tblLoading, tblFallback, lastTable>>
    /\ UNCHANGED apiVars
    /\ UNCHANGED <<monVars, aggVars, indVars, dashVars, riskCard>>

\* The Promise.all of the i-th round awaiting settles and fetchLiveData goes
\* on from the results of its two calls to the finally
TableRoundComplete(i, sensorDataResult, predictionsResult) ==
    LET set == FetchLiveData(tblData, sensorDataResult, predictionsResult)
    IN  /\ i \in DOMAIN tblRounds
        /\ NoTableRoundSettled \/ tblRounds[i].offlineSeen
        /\ tblData' = set.data
        /\ tblFallback' = set.isFallback
        /\ tblLoading' = FALSE
        /\ lastTable' = [kind |-> "round",
                         sensorFallback |-> sensorDataResult.fallback,
                         predictionsFallback |-> predictionsResult.fallback,
                         threw |-> \/ ForEachThrows(sensorDataResult.data, "sensorData")
                                   \/ ForEachThrows(predictionsResult.data, "predictions")]
        /\ tblRounds' = RoundsAfter(tblRounds, i)
        /\ UNCHANGED apiVars
        /\ UNCHANGED <<monVars, aggVars, indVars, dashVars, riskCard>>

(***************************************************************************)
(* Actions of OfflineIndicator and of the health checker                   *)
(***************************************************************************)

\* The steps of this part leave the rest alone
IndFrame ==
    /\ UNCHANGED apiVars
    /\ UNCHANGED <<monVars, aggVars, tableVars, dashVars, riskCard>>

\* The first render: the useState initial values, the effect not yet run
Mount(i) ==
    /\ ~indicators[i].mounted
    /\ indicators' = [indicators EXCEPT ![i] = [Unmounted EXCEPT !.mounted = TRUE]]
    /\ UNCHANGED <<checker, now>>
    /\ IndFrame

\* checkServices() of instance i up to its await: setIsChecking(true), the call
RunCheck(i, nextTick) ==
    /\ checker' = CheckServices(checker, now)
    /\ indicators' = [indicators EXCEPT ![i] =
                         [@ EXCEPT !.effectRan = TRUE, !.isChecking = TRUE,
                                   !.awaiting = TRUE, !.nextTick = nextTick]]
    /\ UNCHANGED now
    /\ IndFrame

\* The effect after the first render: the initial check, then setInterval
EffectRun(i) ==
    /\ indicators[i].mounted
    /\ ~indicators[i].effectRan
    /\ RunCheck(i, now + IntervalTicks)

\* The interval fires
IntervalFire(i) ==
    /\ indicators[i].mounted
    /\ indicators[i].effectRan
    /\ indicators[i].nextTick = now
    /\ RunCheck(i, now + IntervalTicks)

\* `setStatus(health); setIsChecking(false)` of an instance that awaits
Resume(ind, health) ==
    IF ind.mounted /\ ind.awaiting
    THEN [ind EXCEPT !.status = health, !.isChecking = FALSE, !.awaiting = FALSE]
    ELSE ind

\* The probe in flight ends; every instance awaiting it goes on
ProbeFinish(backendUp, aiUp, mqttUp) ==
    LET health == HealthOf(backendUp, aiUp, mqttUp, now)
    IN  /\ checker.inFlight > 0
        /\ checker' = [checker EXCEPT !.inFlight = @ - 1, !.health = health]
        /\ indicators' = [i \in Indicators |-> Resume(indicators[i], health)]
        /\ UNCHANGED now
        /\ IndFrame

\* A call that started no probe and waits for none is answered with the last health
AnswerFromLast(i) ==
    /\ checker.inFlight = 0
    /\ indicators[i].mounted
    /\ indicators[i].awaiting
    /\ indicators' = [indicators EXCEPT ![i] = Resume(@, checker.health)]
    /\ UNCHANGED <<checker, now>>
    /\ IndFrame

\* The cleanup of the effect: clearInterval; the state is gone with the instance
Unmount(i) ==
    /\ indicators[i].mounted
    /\ indicators[i].effectRan
    /\ indicators' = [indicators EXCEPT ![i] = Unmounted]
    /\ UNCHANGED <<checker, now>>
    /\ IndFrame

\* Ten seconds pass: no effect is waiting to run, no interval is due, no call
\* is waiting for an answer that is there
Tick ==
    /\ now < MaxNow
    /\ \A i \in Indicators :
          indicators[i].mounted =>
            /\ indicators[i].effectRan
            /\ indicators[i].nextTick > now
            /\ indicators[i].awaiting => checker.inFlight > 0
    /\ now' = now + 1
    /\ UNCHANGED <<indicators, checker>>
    /\ IndFrame

(***************************************************************************)
(* Actions of the Dashboard                                                *)
(***************************************************************************)

\* The steps of this part leave the rest alone
DashFrame ==
    /\ UNCHANGED <<calls, lastResult, failRun>>
    /\ UNCHANGED <<monVars, aggVars, tableVars, indVars, riskCard>>

\* No promise has settled whose continuation has yet to run: a round whose
\* calls read 'offline' goes on before any timer, event or store change
NothingSettled == \A r \in rounds : ~r.offlineSeen

\* The first render of the component, under the store's status of the moment
DashMount ==
    /\ dash.phase = "unrendered"
    /\ dash' = [Render(dash, status) EXCEPT !.phase = "rendered"]
    /\ UNCHANGED <<status, rounds, clock>>
    /\ DashFrame

\* The store's status changes (probe begun, probe completed)
DashStatusChange(next) ==
    /\ dash.phase # "unmounted"
    /\ NothingSettled
    /\ \/ status # "checking" /\ next = "checking"
       \/ status = "checking" /\ next \in {"online", "offline"}
    /\ status' = next
    /\ dash' = [dash EXCEPT !.wasOffline = @ \/ next = "offline"]
    /\ UNCHANGED <<rounds, clock>>
    /\ DashFrame

\* The component renders again after a change of a state or of the store's
\* status; React runs the effect of a render before it renders again
DashRender ==
    /\ RenderPending(dash, status)
    /\ ~EffectPending(dash)
    /\ NothingSettled
    /\ dash' = Render(dash, status)
    /\ UNCHANGED <<status, rounds, clock>>
    /\ DashFrame

\* The effect of the last render runs (after the first render, or cleanup
\* and body after a render with new dependencies); its safeApi calls read
\* the store
DashEffect ==
    /\ EffectPending(dash)
    /\ NothingSettled
    /\ dash' = RunEffect(dash, clock)
    /\ rounds' = StartRound(dash, rounds, TRUE, clock, status)
    /\ UNCHANGED <<status, clock>>
    /\ DashFrame

\* The interval callback of the last effect run
DashIntervalFire ==
    /\ dash.intervalRef = clock
    /\ NothingSettled
    /\ LET d == [dash EXCEPT !.intervalRef = clock + REFRESH_INTERVAL]
       IN  IF TickGuard(dash)
           THEN /\ dash' = StartFetch(d, FALSE, clock)
                /\ rounds' = StartRound(d, rounds, FALSE, clock, status)
           ELSE /\ dash' = d
                /\ UNCHANGED rounds
    /\ UNCHANGED <<status, clock>>
    /\ DashFrame

\* The Promise.all of round r settles and fetchDashboardData goes on to its
\* end: aiResult for /ai/status, othersFallback for whether one of the nine
\* other results is tagged fallback (each of them is when the calls read
\* 'offline')
RoundComplete(r, aiResult, othersFallback) ==
    /\ r \in rounds
    /\ r.offlineSeen => othersFallback
    /\ dash' = [ApplyRound(dash, r, aiResult, othersFallback) EXCEPT
                   !.liveFailure = @ \/ (dash.mountedRef /\ ~r.offlineSeen
                                           /\ (othersFallback \/ AiOffline(aiResult)))]
    /\ rounds' = rounds \ {r}
    /\ UNCHANGED <<status, clock>>
    /\ DashFrame

\* The user clicks the auto-refresh checkbox of the last render (there is
\* none while that shows the loading screen; disabled in fallback mode):
\* `if (!isFallback) setAutoRefresh(e.target.checked)`
ToggleAutoRefresh(checked) ==
    /\ dash.phase = "mounted"
    /\ ~dash.view.isLoading
    /\ ~EffectPending(dash)
    /\ NothingSettled
    /\ ~dash.view.isFallback
    /\ checked # dash.view.autoRefresh
    /\ dash' = Flush([dash EXCEPT !.autoRefresh = checked], clock, status)
    /\ rounds' = FlushRounds([dash EXCEPT !.autoRefresh = checked], rounds, clock, status)
    /\ UNCHANGED <<status, clock>>
    /\ DashFrame

\* The cleanup of the effect at unmount
DashUnmount ==
    /\ dash.phase = "mounted"
    /\ NothingSettled
    /\ dash' = [dash EXCEPT !.phase = "unmounted", !.mountedRef = FALSE,
                            !.intervalRef = NoInterval]
    /\ UNCHANGED <<status, rounds, clock>>
    /\ DashFrame

\* The user clicks the reset button of the last render (there is none while
\* that shows the loading screen, and a disabled button delivers no click):
\* handleSystemReset up to its await (confirmed: the answer to
\* window.confirm)
ClickReset(confirmed) ==
    /\ dash.phase = "mounted"
    /\ ~dash.view.isLoading
    /\ ~ResetDisabled(dash.view)
    /\ ~EffectPending(dash)
    /\ NothingSettled
    /\ dash' = Flush(HandleSystemReset(dash, confirmed, status), clock, status)
    /\ rounds' = FlushRounds(HandleSystemReset(dash, confirmed, status), rounds, clock, status)
    /\ UNCHANGED <<status, clock>>
    /\ DashFrame

\* handleSystemReset from its await on
ResetSettle(c, outcome) ==
    LET result == IF c.state = "resolved" THEN c ELSE MutatingSettle(c, outcome)
    IN  /\ c \in dash.resetCalls
        /\ dash' = [dash EXCEPT
                       !.resetCalls = @ \ {c},
                       !.resetMessage = IF result.fallback \/ result.data.kind = "null"
                                        THEN "failed" ELSE "ok",
                       !.isResetting = FALSE]
        /\ UNCHANGED <<status, rounds, clock>>
        /\ DashFrame

\* A second passes for the mounted component: the effect has run, no
\* interval is due, no round that cannot be pending any more is pending
\* (calls that read 'offline' return at once, the others within the timeout)
DashTick ==
    /\ clock < MaxSeconds * 1000
    /\ dash.phase = "mounted"
    /\ ~EffectPending(dash)
    /\ ~RenderPending(dash, status)
    /\ dash.intervalRef # clock
    /\ NothingSettled
    /\ \A r \in rounds : clock - r.startedAt < DefaultTimeout
    /\ clock' = clock + 1000
    /\ UNCHANGED <<status, dash, rounds>>
    /\ DashFrame

\* The Dashboard renders the card for the derived window it fetched
RenderRisk(tiers) ==
    /\ riskCard' = RiskCard(tiers, OverallRisk(tiers))
    /\ UNCHANGED <<apiVars, monVars, aggVars, tableVars, indVars, dashVars>>

\* The Dashboard renders the card without a derived window (mssqlDerived is
\* null: the request failed, or no round has been applied)
RenderNoRisk ==
    /\ riskCard' = RiskCard(<<>>, NoOverall)
    /\ UNCHANGED <<apiVars, monVars, aggVars, tableVars, indVars, dashVars>>

(***************************************************************************)
(* Specifications                                                          *)
(***************************************************************************)

Init ==
    /\ status = "checking"
    /\ calls = EmptyBag
    /\ lastResult = NoResult
    /\ failRun = 0
    /\ monitors = InitialMonitors
    /\ isLoading = TRUE
    /\ isFallback = FALSE
    /\ lastPoll = [kind |-> "none", resolved |-> {}]
    /\ maxSeen = [ch \in Channels |-> 0]
    /\ aggRows = <<>>
    /\ aggSnap = InitialMonitors
    /\ aggPasses = 0
    /\ tblData = <<>>
    /\ tblLoading = TRUE
    /\ tblFallback = FALSE
    /\ lastTable = [kind |-> "none", sensorFallback |-> FALSE, predictionsFallback |-> FALSE,
                    threw |-> FALSE]
    /\ tblRounds = <<>>
    /\ indicators = [i \in Indicators |-> Unmounted]
    /\ checker = IdleChecker
    /\ now = 1
    /\ dash = InitialDash
    /\ rounds = {}
    /\ clock = 0
    /\ riskCard = NoCard

\* Every call that may await its HTTP request.
AwaitingCalls ==
    {Awaiting(m, u, "online", t) : m \in Methods, u \in GetEndpoints \cup MutatingEndpoints,
                                    t \in {0, InstanceTimeout}}

\* The run stays within so many calls awaiting their request
InFlight(n) == BagCardinality(calls') <= n

Next ==
    \/ \E m \in Methods : \E u \in EndpointsOf(m) : \E cfg \in ConfigTimeouts :
          Call(m, u, cfg) /\ InFlight(SpecInFlight)
    \/ \E c \in BagToSet(calls) : \E o \in Outcomes(c.url) : Respond(c, o)
    \/ \E c \in BagToSet(calls) : TimeoutFire(c)
    \/ ProbeStart
    \/ \E up \in BOOLEAN : ProbeComplete(up)

\* The resilient fetcher and the health store: the calls over every endpoint,
\* within SpecInFlight of them awaiting at once.
Spec == Init /\ [][Next]_vars

\* The same, with what the runtime guarantees: an armed timer fires unless the
\* request ends first, and the health store's periodic probe keeps running.
\* Nothing obliges the backend to answer a request.
LiveSpec ==
    /\ Spec
    /\ \A c \in AwaitingCalls : WF_vars(TimeoutFire(c))
    /\ WF_vars(ProbeStart)
    /\ WF_vars(\E up \in BOOLEAN : ProbeComplete(up))

MonNext ==
    \/ \E rows \in Batches : PollRows(rows)
    \/ PollEmpty
    \/ PollNonArray
    \/ PollError

\* The polling of one mounted SensorMonitors.
MonSpec == Init /\ [][MonNext]_vars

\* The endpoints of the calls taken side by side: the two gets of the table's
\* round (Promise.all), one with made-up data and one without, and the reset
\* endpoint for the mutating methods.
ConcEndpoints(method) == IF method = "get" THEN LiveTableEndpoints ELSE MutatingEndpoints

ConcNext ==
    \/ \E m \in Methods : \E u \in ConcEndpoints(m) : \E cfg \in ConfigTimeouts :
          Call(m, u, cfg) /\ InFlight(MaxInFlight)
    \/ \E c \in BagToSet(calls) : \E o \in Outcomes(c.url) : Respond(c, o)
    \/ \E c \in BagToSet(calls) : TimeoutFire(c)
    \/ ProbeStart
    \/ \E up \in BOOLEAN : ProbeComplete(up)

\* The resilient fetcher with calls side by side.
ConcSpec == Init /\ [][ConcNext]_vars

AggNext ==
    \/ \E rows \in AggBatches : AggregateBatch(rows)
    \/ AggregateAgain

\* The aggregation on its own.
AggSpec == Init /\ [][AggNext]_vars

TableNext ==
    \/ ProbeStart
    \/ \E backendUp \in BOOLEAN : ProbeComplete(backendUp)
    \/ TablePoll
    \/ \E i \in DOMAIN tblRounds :
          \E sensorDataResult \in SensorDataResults[TableSeenBy(tblRounds[i])] :
             \E predictionsResult \in PredictionsResults[TableSeenBy(tblRounds[i])] :
                TableRoundComplete(i, sensorDataResult, predictionsResult)

\* The polling of one mounted LiveDataTable.
TableSpec == Init /\ [][TableNext]_vars

IndNext ==
    \/ \E i \in Indicators : Mount(i)
    \/ \E i \in Indicators : EffectRun(i)
    \/ \E i \in Indicators : IntervalFire(i)
    \/ \E backendUp \in BOOLEAN : \E aiUp \in BOOLEAN : \E mqttUp \in BOOLEAN :
          ProbeFinish(backendUp, aiUp, mqttUp)
    \/ \E i \in Indicators : AnswerFromLast(i)
    \/ \E i \in Indicators : Unmount(i)
    \/ Tick

\* The mounted OfflineIndicators and the health checker they share.
IndSpec == Init /\ [][IndNext]_vars

\* The run stays within so many rounds started and pending
Within(starts, pending) == dash'.started <= starts /\ Cardinality(rounds') <= pending

\* What happens to a Dashboard that is left to itself
DashAuto(starts, pending) ==
    \/ DashMount
    \/ \E next \in {"checking", "online", "offline"} : DashStatusChange(next)
    \/ DashRender
    \/ DashEffect /\ Within(starts, pending)
    \/ DashIntervalFire /\ Within(starts, pending)
    \/ \E r \in rounds : \E aiResult \in AiResults(SeenBy(r)) : \E othersFallback \in BOOLEAN :
          RoundComplete(r, aiResult, othersFallback)
    \/ DashTick

DashNext ==
    \/ DashAuto(MaxStarts, MaxPending)
    \/ \E checked \in BOOLEAN : ToggleAutoRefresh(checked) /\ Within(MaxStarts, MaxPending)
    \/ DashUnmount

\* One Dashboard and its user, from its first render to its unmount.
DashSpec == Init /\ [][DashNext]_vars

AutoNext == DashAuto(AutoStarts, AutoPending)

\* One Dashboard that stays mounted and is left to itself.
AutoSpec == Init /\ [][AutoNext]_vars

ResetNext ==
    \/ DashMount
    \/ \E next \in {"checking", "online", "offline"} : DashStatusChange(next)
    \/ DashRender
    \/ DashEffect /\ Within(MaxStarts, MaxPending)
    \/ \E r \in rounds : \E aiResult \in AiResults(SeenBy(r)) : \E othersFallback \in BOOLEAN :
          RoundComplete(r, aiResult, othersFallback)
    \/ \E confirmed \in BOOLEAN : ClickReset(confirmed) /\ Within(MaxStarts, MaxPending)
    \/ \E c \in dash.resetCalls : \E o \in Outcomes(c.url) \cup {TimeoutError} :
          ResetSettle(c, o)

\* The System Reset button of one Dashboard.
ResetSpec == Init /\ [][ResetNext]_vars

(***************************************************************************)
(* Properties of the resilient fetcher (safeApi)                           *)
(***************************************************************************)

\* C1: safeApi.get, post, put and delete never reject: whatever the status
\* read and however the HTTP request ends, a call that has returned has
\* resolved to a result object {fallback, data, error?}; a call that has not
\* returned is awaiting its request.
C1_NeverRejects ==
    /\ lastResult.state \in {"none", "resolved"}
    /\ lastResult.state = "resolved" =>
          /\ lastResult.fallback \in BOOLEAN
          /\ lastResult.data.kind \in {"null", "list", "object"}
          /\ (lastResult.error # NoError => lastResult.fallback)
    /\ \A c \in BagToSet(calls) : c.state = "pending"

\* A mutating call whose request ended with a non-2xx status has returned.
C1_Witness ==
    /\ lastResult.method = "delete"
    /\ lastResult.net = "http"
    /\ lastResult.state = "resolved"

IsPredictionList(data) ==
    /\ data.kind = "list"
    /\ Len(data.items) = 10
    /\ \A i \in 1..Len(data.items) :
          /\ data.items[i].status \in {"normal", "warning", "critical"}
          /\ data.items[i].prediction \in {"normal", "anomaly"}

\* C2: a safeApi.get that read the status 'offline' sends no request and
\* returns at once, resolved, with fallback = true and generateMockData(url)
\* as data (a list of prediction objects for the predictions endpoints); no
\* such call is ever awaiting a request.
C2_OfflineShortCircuit ==
    /\ (lastResult.method = "get" /\ lastResult.offlineSeen) =>
          /\ lastResult.state = "resolved"
          /\ ~lastResult.sent
          /\ lastResult.net = "none"
          /\ lastResult.fallback
          /\ lastResult.data = generateMockData(lastResult.url)
          /\ (Includes(Chars(lastResult.url), Chars("/predictions"))
                 => IsPredictionList(lastResult.data))
    /\ \A c \in BagToSet(calls) : ~(c.method = "get" /\ c.offlineSeen)

\* safeApi.get('/predictions?...') has returned while the status was offline.
C2_Witness ==
    /\ lastResult.method = "get"
    /\ lastResult.offlineSeen
    /\ lastResult.url = "/predictions?limit=30&sort=desc"
    /\ status = "offline"

\* C3: for a safeApi.get that read a status other than 'offline', the result
\* has fallback = false exactly when the request succeeded, and then data is
\* the response body; when the request failed (timeout, transport error,
\* non-2xx status) the result has fallback = true, generateMockData(url) as
\* data and the failure's message as error.
C3_OriginTagExact ==
    (lastResult.method = "get" /\ ~lastResult.offlineSeen) =>
        /\ lastResult.sent
        /\ (lastResult.fallback = FALSE) <=> (lastResult.net = "ok")
        /\ lastResult.net = "ok" =>
              /\ lastResult.data = LiveBody(lastResult.url)
              /\ lastResult.error = NoError
        /\ lastResult.net # "ok" =>
              /\ lastResult.net \in {"timeout", "transport", "http"}
              /\ lastResult.data = generateMockData(lastResult.url)
              /\ lastResult.error \in
                    {o.message : o \in {x \in Outcomes(lastResult.url) \cup {TimeoutError} :
                                            x.net = lastResult.net}}

\* A get whose request timed out has returned substitute data.
C3_Witness ==
    /\ lastResult.method = "get"
    /\ ~lastResult.offlineSeen
    /\ lastResult.net = "timeout"
    /\ lastResult.fallback
    /\ lastResult.data = MockOverview

\* C4: every safeApi call that sent a request (get, post, put or delete, with
\* any config) returns: no call awaits its request for ever, even if the
\* backend never answers.
C4_EveryCallReturns == \A c \in AwaitingCalls : []<>(~BagIn(c, calls))

\* A live request of some awaiting call fails: by a transport error, a non-2xx
\* status or the timeout.
FailedLiveCall ==
    \E c \in BagToSet(calls) :
        \/ \E o \in Outcomes(c.url) : ~o.ok /\ Respond(c, o)
        \/ TimeoutFire(c)

\* C5: if live requests keep failing, with no success among them from some
\* point on, the health status eventually becomes 'offline'.
C5_FailureRunForcesOffline ==
    ([]<><<FailedLiveCall>>_vars /\ <>[](failRun > 0)) => <>(status = "offline")

\* C6: for every endpoint that Dashboard and LiveDataTable get, the substitute
\* data is not null and has the shape of the endpoint's live response.
C6_MockShapeMatchesLive ==
    (lastResult.method = "get" /\ lastResult.fallback) =>
        /\ lastResult.data.kind # "null"
        /\ lastResult.data.kind = LiveShape(lastResult.url).kind
        /\ lastResult.data.type = LiveShape(lastResult.url).type

(***************************************************************************)
(* Properties of SensorMonitors.  Every step of MonSpec is the handling of *)
(* one poll, which lastPoll' describes.                                    *)
(***************************************************************************)

\* C7: the entry of a channel is the newest reading any poll has delivered
\* for it: its timestamp is the greatest seen so far for the channel.
C7_NewestReadingKept ==
    \A ch \in Channels : maxSeen[ch] > 0 => monitors[ch].timestamp = maxSeen[ch]

\* C8: a poll with rows, none of which is for some channel, leaves that
\* channel's entry as it was.
C8_AbsentChannelKeepsEntry ==
    [][\A ch \in Channels :
          (lastPoll'.kind = "rows" /\ ch \notin lastPoll'.resolved)
              => monitors'[ch] = monitors[ch]]_vars

\* C9: a poll with rows, none of which is for any channel, leaves the whole
\* snapshot as it was.
C9_UnresolvedBatchKeepsSnapshot ==
    [][(lastPoll'.kind = "rows" /\ lastPoll'.resolved = {}) => monitors' = monitors]_vars

\* C10: a poll that returns an empty array or a body that is no array leaves
\* the whole snapshot as it was.
C10_EmptyPollKeepsSnapshot ==
    [][lastPoll'.kind \in {"empty", "nonarray"} => monitors' = monitors]_vars

\* An empty poll has been handled while the snapshot shows a reading.
C10_Witness ==
    /\ lastPoll.kind = "empty"
    /\ monitors["temperature"].timestamp > 0
    /\ monitors["temperature"].status = "critical"

RiskNext ==
    \/ \E tiers \in Windows : RenderRisk(tiers)
    \/ RenderNoRisk

\* The Extruder Risk card over the derived windows
RiskSpec == Init /\ [][RiskNext]_vars
(***************************************************************************)
(* Properties of the aggregation, the alias resolution and the threshold   *)
(* classification of fetchSensorData                                       *)
(***************************************************************************)

\* Two rows for one channel with valid, different timestamps
TwoReadingsOfOneChannel(rows) ==
    /\ Len(rows) = 2
    /\ KeyOf(rows[1]) \in Channels
    /\ KeyOf(rows[1]) = KeyOf(rows[2])
    /\ TimestampOf(rows[1]) > 0
    /\ TimestampOf(rows[2]) > 0
    /\ TimestampOf(rows[1]) # TimestampOf(rows[2])

\* C11: one pass over two readings of one channel with different timestamps
\* gives the same snapshot in either order of the two, and the channel's entry
\* has the value, status, timestamp and sensor of the reading with the later
\* timestamp.
C11_OrderIndependent ==
    (aggPasses = 1 /\ TwoReadingsOfOneChannel(aggRows)) =>
        LET newer == IF TimestampOf(aggRows[1]) > TimestampOf(aggRows[2])
                     THEN aggRows[1] ELSE aggRows[2]
            ch == KeyOf(newer)
        IN  /\ aggSnap = Aggregate(InitialMonitors, <<aggRows[2], aggRows[1]>>)
            /\ aggSnap[ch].value = ParseValue(newer.value)
            /\ aggSnap[ch].status = StatusOf(ch, ParseValue(newer.value))
            /\ aggSnap[ch].timestamp = TimestampOf(newer)
            /\ aggSnap[ch].sensorId = newer.sensor_id

\* Vibration 5 at instant 2 was processed before vibration 3 at instant 1, and
\* the entry shows 5, warning, instant 2.
C11_Witness ==
    /\ aggPasses = 1
    /\ TwoReadingsOfOneChannel(aggRows)
    /\ aggRows[1].value.n = 5 /\ TimestampOf(aggRows[1]) = 2
    /\ aggRows[2].value.n = 3 /\ TimestampOf(aggRows[2]) = 1
    /\ aggSnap["vibration"].value = 5
    /\ aggSnap["vibration"].status = "warning"
    /\ aggSnap["vibration"].timestamp = 2

\* C12: a second pass over the same batch, from the snapshot the first pass
\* produced, gives that same snapshot.
C12_Idempotent ==
    aggPasses = 2 => aggSnap = Aggregate(InitialMonitors, aggRows)

\* A batch of two rows, the first without timestamp, has been aggregated twice
\* and the snapshot shows a reading.
C12_Witness ==
    /\ aggPasses = 2
    /\ Len(aggRows) = 2
    /\ TimestampOf(aggRows[1]) = TsUndefined
    /\ \E ch \in Channels : aggSnap[ch].sensorId # NoSensorId

\* The boundaries <<warning, critical>> each channel is to be classified by
Boundaries ==
    [temperature |-> <<70, 80>>, vibration |-> <<4, 6>>, pressure |-> <<150, 180>>,
     motor_current |-> <<18, 22>>, wear_index |-> <<60, 80>>]

Severity == [normal |-> 0, warning |-> 1, critical |-> 2]

\* C13: the status written for a numeric value v of a channel is exactly one
\* of normal, warning, critical: critical iff v is above the channel's critical
\* boundary, warning iff v is above the warning boundary and not above the
\* critical one, normal iff v is not above the warning boundary; it is the
\* same whenever computed, and no greater value has a less severe status.
C13_ClassifierThresholds ==
    (/\ aggPasses = 1
     /\ Len(aggRows) = 1
     /\ KeyOf(aggRows[1]) \in Channels
     /\ aggRows[1].value.numeric) =>
        LET ch == KeyOf(aggRows[1])
            v == aggRows[1].value.n
            s == aggSnap[ch].status
            warning == Boundaries[ch][1]
            critical == Boundaries[ch][2]
        IN  /\ aggSnap[ch].value = v
            /\ s \in DOMAIN Severity
            /\ (s = "critical") <=> (v > critical)
            /\ (s = "warning") <=> (warning < v /\ v <= critical)
            /\ (s = "normal") <=> (v <= warning)
            /\ s = StatusOf(ch, v)
            /\ \A u \in ThresholdValues :
                  u >= v => Severity[StatusOf(ch, u)] >= Severity[s]

\* A pressure of exactly 180, the critical boundary, is shown as a warning.
C13_Witness ==
    /\ aggPasses = 1
    /\ Len(aggRows) = 1
    /\ aggRows[1].value.numeric
    /\ aggSnap["pressure"].value = 180
    /\ aggSnap["pressure"].status = "warning"

\* None of the six hint fields of the row is set
HintsAbsent(row) ==
    /\ row.alias = "" /\ row.category = "" /\ row.meta_sensor_type = ""
    /\ row.meta_sensor_name = "" /\ row.sensor_type = "" /\ row.sensor_name = ""

\* The hint is no key of typeMapping, contains none and is contained in none
NoEntryMatches(sensorType) ==
    /\ sensorType # <<>>
    /\ \A i \in 1..Len(typeMapping) :
          /\ Chars(typeMapping[i][1]) # sensorType
          /\ ~PartialMatch(sensorType, i)

\* C14: a reading with no hint at all, or whose hint matches no entry of the
\* alias table, changes no entry of the snapshot.
C14_UnresolvedDropped ==
    (/\ aggPasses = 1
     /\ Len(aggRows) = 1
     /\ \/ HintsAbsent(aggRows[1])
        \/ NoEntryMatches(SensorTypeOf(aggRows[1]))) =>
        aggSnap = InitialMonitors

\* The hint candidates of a row in their priority order, each lower-cased (the
\* two names with their white space replaced) and trimmed
Candidates(row) ==
    << Trim(ToLowerCase(Chars(row.alias))),
       Trim(ToLowerCase(Chars(row.category))),
       Trim(ToLowerCase(Chars(row.meta_sensor_type))),
       Trim(ReplaceSpaces(ToLowerCase(Chars(row.meta_sensor_name)))),
       Trim(ToLowerCase(Chars(row.sensor_type))),
       Trim(ReplaceSpaces(ToLowerCase(Chars(row.sensor_name)))) >>

\* The channel of the first candidate that matches the alias table (NoKey: no
\* candidate matches)
FirstMatchingChannel(row) ==
    LET cs == Candidates(row)
        matching == {i \in 1..Len(cs) : cs[i] # <<>> /\ MonitorKey(cs[i]) # NoKey}
    IN  IF matching = {} THEN NoKey
        ELSE MonitorKey(cs[CHOOSE i \in matching : \A j \in matching : i <= j])

\* C15: a reading is filed under the channel of its first candidate, in
\* priority order, that matches the alias table, also when a candidate of
\* higher priority is present and matches nothing.
C15_FirstMatchingCandidateWins ==
    (/\ aggPasses = 1
     /\ Len(aggRows) = 1
     /\ FirstMatchingChannel(aggRows[1]) # NoKey) =>
        /\ KeyOf(aggRows[1]) = FirstMatchingChannel(aggRows[1])
        /\ aggSnap[FirstMatchingChannel(aggRows[1])].sensorId = aggRows[1].sensor_id

\* C16: a reading whose value is missing or not a number is kept and counted
\* as 0: no row's value reaches the classification as anything but a number,
\* and when such a reading is the newest of its channel the entry shows value
\* 0, status normal, and the reading's timestamp and sensor.
C16_NonNumericCountsAsZero ==
    aggPasses = 1 =>
        /\ \A i \in 1..Len(aggRows) : ParseValue(aggRows[i].value) \in Int
        /\ \A i \in 1..Len(aggRows) :
              (/\ ~aggRows[i].value.numeric
               /\ KeyOf(aggRows[i]) \in Channels
               /\ \/ Len(aggRows) = 1
                  \/ /\ TwoReadingsOfOneChannel(aggRows)
                     /\ \A j \in 1..Len(aggRows) :
                           TimestampOf(aggRows[j]) <= TimestampOf(aggRows[i])) =>
                  LET e == aggSnap[KeyOf(aggRows[i])]
                  IN  /\ e.value = 0
                      /\ e.status = "normal"
                      /\ e.timestamp = TimestampOf(aggRows[i])
                      /\ e.sensorId = aggRows[i].sensor_id

\* Vibration 5 at instant 1 and a non-numeric vibration value at instant 2
\* have been aggregated, and the entry shows 0, normal, instant 2.
C16_Witness ==
    /\ aggPasses = 1
    /\ TwoReadingsOfOneChannel(aggRows)
    /\ aggRows[1].value = [numeric |-> TRUE, n |-> 5]
    /\ ~aggRows[2].value.numeric
    /\ aggSnap["vibration"].value = 0
    /\ aggSnap["vibration"].status = "normal"
    /\ aggSnap["vibration"].timestamp = 2


(***************************************************************************)
(* Properties of LiveDataTable                                             *)
(***************************************************************************)

\* A round of fetchLiveData was handled in this step
TableRound == Len(tblRounds') < Len(tblRounds)

\* What holds of every round whatever the claim about the untagged ones:
\* a tag on either result sets the fallback display and keeps the rows, and
\* the rows change only in a round with both results untagged.
TaggedRoundKeepsRows ==
    LET tagged == lastTable'.sensorFallback \/ lastTable'.predictionsFallback
    IN  /\ tagged => tblFallback' /\ tblData' = tblData
        /\ tblData' # tblData => ~tagged
        /\ ~tblLoading'

\* C17 as stated: rows are recomputed only from a round with both results
\* untagged, a round with either result tagged fallback sets the fallback
\* display and keeps the rows, and the tags alone decide: the fallback
\* display is on after a round exactly when one of its results was tagged.
C17_TagsAloneDecide ==
    [][TableRound =>
        /\ TaggedRoundKeepsRows
        /\ tblFallback' = (lastTable'.sensorFallback \/ lastTable'.predictionsFallback)]_vars

(***************************************************************************)
(* Properties of the health display and of the probes                      *)
(***************************************************************************)

\* The moves the health state may make
HealthTransitions ==
    {<<"checking", "online">>, <<"checking", "offline">>,
     <<"online", "checking">>, <<"offline", "checking">>}

\* C18: the health state starts as 'checking' and moves only from checking
\* to online or offline, and from online or offline to checking; never
\* between online and offline directly. Here of the health each
\* OfflineIndicator shows: what a newly mounted instance shows, and every
\* change of what a mounted instance shows.
C18_HealthStateMachine ==
    [][\A i \in Indicators :
        LET before == indicators[i]
            after == indicators'[i]
        IN  /\ (~before.mounted /\ after.mounted) => IndicatorHealth(after) = "checking"
            /\ (before.mounted /\ after.mounted
                  /\ IndicatorHealth(before) # IndicatorHealth(after))
                 => <<IndicatorHealth(before), IndicatorHealth(after)>> \in HealthTransitions]_vars

\* C19: when a check of an instance completes, the health it shows is
\* offline exactly when the probe found the backend down, whatever it found
\* of the AI service and of MQTT.
C19_OfflineIffBackendDown ==
    [][\A i \in Indicators :
        (indicators[i].awaiting /\ indicators'[i].mounted /\ ~indicators'[i].awaiting)
            => /\ indicators'[i].status = checker'.health
               /\ (IndicatorHealth(indicators'[i]) = "offline") = ~checker'.health.backend]_vars

\* An instance whose check completed with the backend up and both auxiliary
\* services down shows online.
C19_Witness ==
    \E i \in Indicators :
        /\ indicators[i].mounted
        /\ ~indicators[i].isChecking
        /\ indicators[i].status.lastCheck > 0
        /\ indicators[i].status.backend
        /\ ~indicators[i].status.ai
        /\ ~indicators[i].status.mqtt
        /\ IndicatorHealth(indicators[i]) = "online"

\* C20: at most one probe is in flight at any time, and two probes never
\* start less than one interval (30 s) apart, however many instances are
\* mounted and call checkServices.
C20_SingleFlight ==
    /\ checker.inFlight <= 1
    /\ checker.prevStartedAt > 0 => checker.startedAt - checker.prevStartedAt >= IntervalTicks

\* Two instances are mounted and have called, the second probe is in flight,
\* and one of them is waiting for a probe it did not start at its own tick.
C20_Witness ==
    /\ \A i \in Indicators : indicators[i].mounted /\ indicators[i].awaiting
    /\ checker.prevStartedAt > 0
    /\ checker.inFlight = 1

(***************************************************************************)
(* Properties of the Dashboard                                             *)
(***************************************************************************)

\* This step starts a fetch round
RoundStarts == dash'.started > dash.started

\* The round this step starts
StartedRound == CHOOSE r \in rounds' : r.seq = dash'.started

\* C21: two fetch rounds of the Dashboard are never started less than
\* MIN_FETCH_INTERVAL (2000 ms) apart: a step that starts a round, when a
\* round was started before, comes at least that long after the start
\* before it (lastFetchRef holds the instant of the last start).
C21_RoundsThrottled ==
    [][(RoundStarts /\ dash.started > 0)
          => clock - dash.lastFetchRef >= MIN_FETCH_INTERVAL]_vars

\* C22: once the Dashboard is unmounted its interval is cleared, no step
\* starts a fetch round for it, and a round that settles afterwards changes
\* none of its state (it only leaves the pending rounds).
C22_TornDownStaysQuiet ==
    [][/\ dash'.phase = "unmounted" => dash'.intervalRef = NoInterval
       /\ dash.phase = "unmounted" => dash' = dash /\ rounds' \subseteq rounds]_vars

\* The Dashboard is unmounted and a round that was pending at the unmount
\* has settled since: every round started has settled, the last one unapplied.
C22_Witness ==
    /\ dash.phase = "unmounted"
    /\ rounds = {}
    /\ dash.shown < dash.started

\* C25: a periodic (non-initial) fetch round is started only when the
\* component is mounted, the backend status is 'online' and auto-refresh is
\* enabled, all three as they are in the step that starts it.
C25_PeriodicRoundOnlyWhenOnline ==
    [][(RoundStarts /\ ~StartedRound.initial)
          => /\ dash.phase = "mounted"
             /\ status = "online"
             /\ dash.autoRefresh]_vars

\* The backend is back online after an offline period, every round whose
\* requests were sent came back live with the AI 'healthy', and the newest
\* round, started since, has been answered so.
RecoveredAndHealthy ==
    /\ dash.phase = "mounted"
    /\ dash.wasOffline
    /\ ~dash.liveFailure
    /\ status = "online"
    /\ rounds = {}
    /\ dash.shown = dash.started
    /\ ~dash.isFallback
    /\ dash.aiStatus = "healthy"

\* C26: auto-recovery without user action. Once the status is back to
\* 'online' after an offline period and the requests succeed with the AI
\* healthy, the periodic refresh runs again: auto-refresh, which every
\* periodic round requires, is enabled.
C26_AutoRecovery == RecoveredAndHealthy => dash.autoRefresh

\* C30: responses are applied in issue order.  The round whose results the
\* Dashboard shows is never replaced by a round that was started earlier:
\* the sequence number of the round on display never goes down.
C30_AppliedInIssueOrder == [][dash'.shown >= dash.shown]_vars

\* handleSystemReset has sent POST /system/reset
ResetIssued == \E c \in dash'.resetCalls \ dash.resetCalls : c.sent

ResetAttemptEnds == dash.resetCalls \ dash'.resetCalls # {}

\* C27: POST /system/reset is issued only when the dashboard is not in
\* fallback mode (isFallback), the backend status of the store is 'online',
\* no reset is in progress and the user confirmed; at most one reset request
\* is in flight; isResetting is false again after every attempt, whatever
\* its result.
C27_ResetGuarded ==
    [][/\ ResetIssued =>
            /\ ~dash.isFallback
            /\ status = "online"
            /\ ~dash.isResetting
            /\ dash.resetCalls = {}
            /\ (HandleSystemReset(dash, FALSE, status)).resetCalls = dash.resetCalls
       /\ Cardinality(dash'.resetCalls) <= 1
       /\ ResetAttemptEnds => ~dash'.isResetting]_vars

\* A step of a safeApi call: a call was made, or a pending call returned
CallStep == calls' # calls \/ lastResult' # lastResult

\* The step is the start of one call with some arguments: the call joins the
\* pending ones or returns at once, by the status and its arguments alone
StartsOneCall ==
    \E m \in Methods : \E u \in EndpointsOf(m) : \E cfg \in ConfigTimeouts :
        LET c == Start(m, u, cfg, status)
        IN  IF c.state = "pending"
            THEN calls' = calls (+) SetToBag({c}) /\ lastResult' = lastResult
            ELSE calls' = calls /\ lastResult' = c

\* The step is the return of one pending call: its result is made of the
\* call and of how its own request ended, the other pending calls (calls
\* with the same arguments among them) stay pending
SettlesOneCall ==
    \E c \in BagToSet(calls) :
        /\ calls' = calls (-) SetToBag({c})
        /\ BagCardinality(calls') = BagCardinality(calls) - 1
        /\ \E o \in Outcomes(c.url) \cup {TimeoutError} : lastResult' = Settle(c, o)

\* C23: a safeApi call only reads the health state.  No step of a get, post,
\* put or delete call (its start, its short circuit, its success, its
\* failure, its timeout) changes the status, and the step is the step of
\* one call alone: whatever else is pending, for the same endpoint or for
\* another, stays as it is and has no part in the result.
C23_CallsOnlyReadHealth ==
    [][CallStep =>
          /\ status' = status
          /\ IF BagCardinality(calls') < BagCardinality(calls)
             THEN SettlesOneCall
             ELSE StartsOneCall]_vars

\* A get has failed after its request went out while two more calls with its
\* very arguments are pending together, and the status is still 'online'
C23_Witness ==
    /\ status = "online"
    /\ lastResult.state = "resolved" /\ lastResult.sent /\ lastResult.fallback
    /\ lastResult.method = "get"
    /\ \E c \in BagToSet(calls) :
          /\ CopiesIn(c, calls) = 2
          /\ c.method = lastResult.method /\ c.url = lastResult.url

\* C28: mutating calls never succeed against, or make up data for, an
\* offline backend.  A post, put or delete that read 'offline' sent no
\* request and returned {fallback: true, data: null, error: 'Backend
\* offline'}; every post, put or delete result tagged fallback has data
\* null and an error that is present and not empty.
C28_MutatingFallbackHasNoData ==
    (lastResult.method \in {"post", "put", "delete"} /\ lastResult.state = "resolved") =>
        /\ lastResult.offlineSeen =>
              /\ ~lastResult.sent
              /\ lastResult.fallback
              /\ lastResult.data = NullData
              /\ lastResult.error = "Backend offline"
        /\ lastResult.fallback =>
              /\ lastResult.data = NullData
              /\ lastResult.error \notin {NoError, ""}

\* A put has failed on the network while the backend was not known offline
C28_Witness ==
    /\ lastResult.method = "put"
    /\ lastResult.sent
    /\ lastResult.fallback
    /\ ~lastResult.offlineSeen

\* The status the channel's boundaries give a value
Classified(ch, v) ==
    IF v > Boundaries[ch][2] THEN "critical"
    ELSE IF v > Boundaries[ch][1] THEN "warning" ELSE "normal"

\* C29: the snapshot of SensorMonitors is well-formed in every reachable
\* state: its keys are exactly temperature, vibration, pressure,
\* motor_current and wear_index, and the status of each entry is the
\* threshold classification of that entry's own value; this holds of the
\* initial entries and after a failed poll, which leaves the snapshot as it
\* was.
C29_SnapshotWellFormed ==
    /\ DOMAIN monitors = Channels
    /\ \A ch \in Channels : monitors[ch].status = Classified(ch, monitors[ch].value)

\* A poll has written a critical temperature beside the initial pressure
\* entry, and the poll after it has failed
C29_Witness ==
    /\ lastPoll.kind = "error"
    /\ monitors["pressure"] = InitialMonitors["pressure"]
    /\ monitors["temperature"].value = 85 /\ monitors["temperature"].status = "critical"

\* The worst of a window's tiers, told by membership
WorstOf(tiers) ==
    LET present == {tiers[i] : i \in 1..Len(tiers)}
    IN  IF "red" \in present THEN "red"
        ELSE IF "yellow" \in present THEN "yellow" ELSE "green"

\* The classes that paint an element green
GreenClasses == {"text-emerald-600", "bg-emerald-50 text-emerald-700 border border-emerald-200"}

\* C24: overallRisk is the most severe of the computed tiers (red over
\* yellow over green) and 'unknown', never green, for an empty window; the
\* Dashboard shows an overall value outside red, yellow, green as unknown
\* ('--'), never as green.
C24_OverallRiskShown ==
    riskCard.rendered =>
        /\ (riskCard.overall # NoOverall /\ riskCard.tiers # <<>>) =>
               riskCard.overall = WorstOf(riskCard.tiers)
        /\ (riskCard.overall # NoOverall /\ riskCard.tiers = <<>>) =>
               riskCard.overall = "unknown"
        /\ riskCard.overall \notin {"red", "yellow", "green"} =>
               /\ riskCard.text = <<"-", "-">>
               /\ riskCard.textClass \notin GreenClasses
               /\ riskCard.badgeClass \notin GreenClasses
====
